---- MODULE Spec2Model ----
(***************************************************************************)
(* A model of the code-table generator gen_ll (package tools, function     *)
(* main): full codes of characters from their decompositions, the          *)
(* single-character simplifier, and the pipeline that main runs on them.   *)
(*                                                                         *)
(* Strings are sequences of byte values (97 is 'a', 65 is 'A', 95 is '_'); *)
(* characters and component symbols are numbers ordered as their strings   *)
(* are.  Go maps are functions whose DOMAIN is the set of keys; a lookup   *)
(* of an absent key yields the zero value.                                 *)
(*                                                                         *)
(* The repository holds two copies of package tools' builder: the file     *)
(* gen_ll/tools/builder.go and a second copy (unnamed/part_000) that sorts *)
(* by frequency.  The variable build says which copy a behaviour runs.     *)
(***************************************************************************)
EXTENDS Integers, Sequences, FiniteSets, TLC

VARIABLES
    build,          \* which copy of package tools runs: "builder" or "part_000"
    mappings,       \* component symbol -> code string (read-only input)
    div,            \* SpecCalc: the decomposition handed to calcFullCodeByDiv
    calcOut,        \* SpecCalc: [full, code] returned by calcFullCodeByDiv
    table,          \* character -> list of decompositions (read-only input)
    freqSet,        \* character -> frequency (read-only input)
    numCPU,         \* runtime.NumCPU()
    chars,          \* the keys of table in the order "for char := range table" gave
    pc,             \* where main (or the function under test) stands
    i,              \* BuildFullCodeMetaList: the batch loop's index
    wg,             \* BuildFullCodeMetaList: the WaitGroup's counter
    mutex,          \* BuildFullCodeMetaList: <<>> when free, <<w>> when worker w holds it
    wpc,            \* worker -> "none", "run", "built", "locked", "merged", "done"
    batch,          \* worker -> [start, end], the goroutine's arguments
    localCharMetaList, \* worker -> its private buffer
    charMetaList,   \* the shared result list, then main's fullCodeMetaList
    wordEntries,    \* the word list main read (input)
    charCodeMap,    \* main: CreateCharCodeMap's result
    wordCodes,      \* main: BuildWordsFullCode's result
    lenCodeLimit,   \* prefix length -> quota (input)
    noSimplifyChars,\* the characters that get no simple code (input)
    simpleCodeList, \* BuildSimpleCodeList's result
    simpleFrom,     \* history: simpleFrom[k] is the CharMeta simpleCodeList[k] came from
    usedCodes,      \* BuildSimpleCodeList's local usedCodes as it returned
    wordsLenCodeLimit, \* code length -> quota of the word simplifier (input)
    wordSimpleCodes,\* main: BuildWordsSimpleCode's result
    citiCopy,       \* which copy of AddCandidateCodes in citi_processor.go runs
    citiEntries,    \* the entries handed to a candidate-code transform
    citiResult,     \* the list the transform returned
    args,           \* main: the quota-table strings of the command line
    linglongLenCodeLimit, \* main: the third quota table it parses
    firstRun,       \* SpecTwoRuns: the tables an earlier run on the same inputs made
    present,        \* main: the optional tables that are not nil
    fileCount,      \* main: the number it counted before starting the writers
    outWg,          \* main: the counter of the output phase's WaitGroup
    errChan,        \* main: the errors buffered in errChan
    errCap,         \* main: the capacity errChan was made with
    closed,         \* main: whether errChan is closed
    writers,        \* file -> "none", "nil", "run", "sent", "done"
    writeFails,     \* the files os.WriteFile cannot write (environment)
    seen,           \* main: the errors it received from errChan
    sortedWordSimpleCodes \* the WORDSSIMPLE writer's sorted copy

calcVars == <<div, calcOut>>
inputVars == <<build, mappings, table, freqSet, numCPU, chars, wordEntries,
               lenCodeLimit, noSimplifyChars, wordsLenCodeLimit>>
workerVars == <<i, wg, mutex, wpc, batch, localCharMetaList>>
simpleVars == <<simpleCodeList, simpleFrom, usedCodes>>
mainVars == <<charCodeMap, wordCodes, simpleVars, wordSimpleCodes>>
citiVars == <<citiCopy, citiEntries, citiResult>>
parseVars == <<args, linglongLenCodeLimit>>
writeVars == <<present, fileCount, outWg, errChan, errCap, closed, writers, writeFails,
               seen, sortedWordSimpleCodes>>
outerVars == <<parseVars, firstRun, writeVars>>
vars == <<inputVars, calcVars, pc, workerVars, charMetaList, mainVars, citiVars,
          outerVars>>

----------------------------------------------------------------------------
(* Bounds *)

MaxArity == 4       \* SpecCalc: longest decomposition (number of components)
MaxCodeLen == 3     \* SpecCalc: longest component code
NChars == 2         \* Spec: most characters in the decomposition table
MaxList == 3        \* SpecSimple: longest list handed to BuildSimpleCodeList
MaxCPU == 2         \* Spec: largest runtime.NumCPU()
MaxWordLen == 5     \* SpecWords: most characters in a word
MaxWords == 2       \* SpecWords, SpecWordsSimple: longest word list
MaxCiti == 3        \* SpecCiti: longest list with any codes and frequencies
MaxGroup == 21      \* SpecCiti: most entries with one code
MaxCfg == 4         \* SpecParse: longest quota string over all its symbols
MaxPairs == 2       \* SpecParse: most pairs in a quota string made of pairs
MaxSort == 2        \* SpecSort: most word codes behind the list that is sorted
MaxFails == 2       \* SpecWrite: most files whose os.WriteFile fails
NKeys == 2          \* BuildWordsSimpleCode: how many of the 24 keys base codes use

----------------------------------------------------------------------------
(* Strings *)

\* The symbols component codes are written with: 'a' and upper-case 'B'.
Alphabet == {97, 66}

\* All strings over a set of symbols, of length 0..n.
RECURSIVE StringsUpTo(_, _)
StringsUpTo(syms, n) ==
    IF n = 0 THEN {<<>>}
    ELSE LET shorter == StringsUpTo(syms, n - 1)
         IN  shorter \cup {s \o <<x>> : s \in {t \in shorter : Len(t) = n - 1}, x \in syms}

\* Go's s[lo:hi] (0-based, hi exclusive).
Slice(s, lo, hi) == SubSeq(s, lo + 1, hi)

\* strings.ToLower on ASCII: 'A'..'Z' move to 'a'..'z', every other byte stays.
ToLowerByte(b) == IF b >= 65 /\ b <= 90 THEN b + 32 ELSE b

ToLower(s) == [k \in 1..Len(s) |-> ToLowerByte(s[k])]

\* Go's string comparison a < b: byte-wise lexicographic.
RECURSIVE StrLess(_, _)
StrLess(a, b) ==
    IF b = <<>> THEN FALSE
    ELSE IF a = <<>> THEN TRUE
    ELSE IF a[1] # b[1] THEN a[1] < b[1]
    ELSE StrLess(Tail(a), Tail(b))

\* strings.HasPrefix(s, p)
HasPrefix(s, p) == Len(s) >= Len(p) /\ SubSeq(s, 1, Len(p)) = p

\* m[k] of a Go map with string values: "" when the key is absent.
MapGet(m, k) == IF k \in DOMAIN m THEN m[k] ELSE <<>>

----------------------------------------------------------------------------
(* calcFullCodeByDiv *)

\* The annotated string "full": the non-empty component codes, a '_' written
\* before every one that is not at index 0.
RECURSIVE FullString(_, _, _)
FullString(d, m, n) ==
    IF n > Len(d) THEN <<>>
    ELSE LET compCode == MapGet(m, d[n])
         IN  IF Len(compCode) = 0 THEN FullString(d, m, n + 1)
             ELSE (IF n > 1 THEN <<95>> ELSE <<>>) \o compCode \o FullString(d, m, n + 1)

\* The small code (position 4): the third symbol, else the second, else the first.
SmallCode(c) ==
    IF Len(c) >= 3 THEN Slice(c, 2, 3)
    ELSE IF Len(c) = 2 THEN Slice(c, 1, 2)
    ELSE Slice(c, 0, 1)

\* The middle code: the second symbol, else the first.
MiddleCode(c) == IF Len(c) >= 2 THEN Slice(c, 1, 2) ELSE Slice(c, 0, 1)

SingleRootCode_ThirdIsSmall(compCode) ==
    Slice(compCode, 0, 1) \o MiddleCode(compCode) \o SmallCode(compCode) \o SmallCode(compCode)

\* len(div) == 1, compCode non-empty.
SingleRootCode(compCode) ==
    Slice(compCode, 0, 1) \o MiddleCode(compCode) \o MiddleCode(compCode) \o SmallCode(compCode)

DoubleRootCode_Contiguous(firstCompCode, secondCompCode) ==
    Slice(firstCompCode, 0, 1) \o MiddleCode(firstCompCode)
        \o Slice(secondCompCode, 0, 1) \o SmallCode(secondCompCode)

\* len(div) == 2, both codes non-empty.
DoubleRootCode(firstCompCode, secondCompCode) ==
    Slice(firstCompCode, 0, 1) \o Slice(secondCompCode, 0, 1)
        \o MiddleCode(firstCompCode) \o SmallCode(secondCompCode)

\* len(div) >= 3, the three codes non-empty.
MultiRootCode(firstCompCode, secondCompCode, lastCompCode) ==
    Slice(firstCompCode, 0, 1) \o Slice(secondCompCode, 0, 1)
        \o Slice(lastCompCode, 0, 1) \o SmallCode(lastCompCode)

\* The component whose code fills positions 3 and 4 when len(div) >= 3.
LastComp_Third(d) == d[3]

LastComp(d) == d[Len(d)]

\* "确保编码长度不超过4码" and strings.ToLower.
Finish_KeepCase(code) == IF Len(code) > 4 THEN Slice(code, 0, 4) ELSE code

Finish(code) == ToLower(IF Len(code) > 4 THEN Slice(code, 0, 4) ELSE code)

calcFullCodeByDiv(d, m) ==
    LET full == FullString(d, m, 1)
        none == [full |-> <<>>, code |-> <<>>]
    IN  IF Len(d) = 1 THEN
            LET compCode == MapGet(m, d[1])
            IN  IF Len(compCode) = 0 THEN none
                ELSE [full |-> full, code |-> Finish(SingleRootCode(compCode))]
        ELSE IF Len(d) = 2 THEN
            LET firstCompCode == MapGet(m, d[1])
                secondCompCode == MapGet(m, d[2])
            IN  IF Len(firstCompCode) = 0 \/ Len(secondCompCode) = 0 THEN none
                ELSE [full |-> full,
                      code |-> Finish(DoubleRootCode(firstCompCode, secondCompCode))]
        ELSE
            LET firstCompCode == MapGet(m, d[1])
                secondCompCode == MapGet(m, d[2])
                lastCompCode == MapGet(m, LastComp(d))
            IN  IF Len(firstCompCode) = 0 \/ Len(secondCompCode) = 0
                   \/ Len(lastCompCode) = 0 THEN none
                ELSE [full |-> full,
                      code |-> Finish(MultiRootCode(firstCompCode, secondCompCode,
                                                    lastCompCode))]

----------------------------------------------------------------------------
(* Weights and placeholder words *)

\* The value of a string of decimal digits (0 for the empty string).
RECURSIVE DigitsValue(_)
DigitsValue(s) ==
    IF s = <<>> THEN 0 ELSE 10 * DigitsValue(SubSeq(s, 1, Len(s) - 1)) + (s[Len(s)] - 48)

\* parseWeight: strconv.ParseInt(weightStr, 10, 64), 0 for "" and for a string
\* that is not an optional sign and one or more digits.
parseWeight(weightStr) ==
    IF weightStr = <<>> THEN 0
    ELSE LET signed == weightStr[1] \in {43, 45}
             digits == IF signed THEN Tail(weightStr) ELSE weightStr
         IN  IF digits = <<>> \/ \E k \in 1..Len(digits) : digits[k] < 48 \/ digits[k] > 57
             THEN 0
             ELSE IF weightStr[1] = 45 THEN 0 - DigitsValue(digits) ELSE DigitsValue(digits)

\* A word is a sequence of runes; its Go string holds their UTF-8 bytes.
Utf8Rune(r) ==
    IF r < 128 THEN <<r>>
    ELSE IF r < 2048 THEN <<192 + (r \div 64), 128 + (r % 64)>>
    ELSE <<224 + (r \div 4096), 128 + ((r \div 64) % 64), 128 + (r % 64)>>

RECURSIVE Utf8(_)
Utf8(word) == IF word = <<>> THEN <<>> ELSE Utf8Rune(Head(word)) \o Utf8(Tail(word))

\* The runes of the circled numbers 1 and 10.
Circled1 == 9312
Circled10 == 9321

\* isPlaceholder: "len(word) == 1" counts bytes and "rune(word[0])" is the
\* first byte.
isPlaceholder(word) ==
    LET bytes == Utf8(word)
    IN  Len(bytes) = 1 /\ bytes[1] >= Circled1 /\ bytes[1] <= Circled10

\* getPlaceholderIndex
getPlaceholderIndex(word) ==
    IF ~isPlaceholder(word) THEN 0 ELSE Utf8(word)[1] - Circled1 + 1

----------------------------------------------------------------------------
(* sort.Slice *)

LessByCode_FreqAscending(a, b) ==
    IF a.Code # b.Code THEN StrLess(a.Code, b.Code)
    ELSE IF a.Freq # b.Freq THEN a.Freq < b.Freq
    ELSE a.Char < b.Char

\* sortCharMetaByCode's less: code ascending, frequency descending, character ascending.
LessByCode(a, b) ==
    IF a.Code # b.Code THEN StrLess(a.Code, b.Code)
    ELSE IF a.Freq # b.Freq THEN a.Freq > b.Freq
    ELSE a.Char < b.Char

\* sortCharMetaByFreq's less: frequency descending, code ascending, character ascending.
LessByFreq(a, b) ==
    IF a.Freq # b.Freq THEN a.Freq > b.Freq
    ELSE IF a.Code # b.Code THEN StrLess(a.Code, b.Code)
    ELSE a.Char < b.Char

LessFreqOnly_Ascending(a, b) == a.Freq < b.Freq

\* The less of BuildSimpleCodeList's opening sort: frequency descending, nothing else.
LessFreqOnly(a, b) == a.Freq > b.Freq

\* The less of BuildWordsSimpleCode's opening sort: weight descending, nothing else.
LessWeightOnly(a, b) == parseWeight(a.Weight) > parseWeight(b.Weight)

\* SortWordSimpleCodes' less in the second copy: code ascending, words before
\* placeholders, placeholders by index, words by weight descending, then word.
LessWordSimple(a, b) ==
    IF a.Code # b.Code THEN StrLess(a.Code, b.Code)
    ELSE IF isPlaceholder(a.Word) # isPlaceholder(b.Word) THEN ~isPlaceholder(a.Word)
    ELSE IF isPlaceholder(a.Word) /\ isPlaceholder(b.Word)
         THEN getPlaceholderIndex(a.Word) < getPlaceholderIndex(b.Word)
    ELSE IF parseWeight(a.Weight) # parseWeight(b.Weight)
         THEN parseWeight(a.Weight) > parseWeight(b.Weight)
    ELSE StrLess(a.Word, b.Word)

\* SortWordSimpleCodes' less in builder.go: code ascending, weight descending,
\* then word.
LessWordWeight(a, b) ==
    IF a.Code # b.Code THEN StrLess(a.Code, b.Code)
    ELSE IF parseWeight(a.Weight) # parseWeight(b.Weight)
         THEN parseWeight(a.Weight) > parseWeight(b.Weight)
    ELSE StrLess(a.Word, b.Word)

\* The less of AddCandidateCodes' sort of a group: frequency descending.
LessCitiFreq(a, b) == a.entry.Freq > b.entry.Freq

Less(kind, a, b) ==
    CASE kind = "code" -> LessByCode(a, b)
      [] kind = "freq" -> LessByFreq(a, b)
      [] kind = "freqOnly" -> LessFreqOnly(a, b)
      [] kind = "weightOnly" -> LessWeightOnly(a, b)
      [] kind = "wordSimple" -> LessWordSimple(a, b)
      [] kind = "wordWeight" -> LessWordWeight(a, b)
      [] kind = "citiFreq" -> LessCitiFreq(a, b)

\* sort.Slice is not stable ("equal elements may be reversed from their original
\* order"; beyond 12 elements its pattern-defeating quicksort moves equal
\* elements past each other, depending on the arrangement it is given): its
\* outcome is any arrangement in which no element is less than an earlier one.
\* SortPerms gives these arrangements of the indices in I.
RECURSIVE SortPerms(_, _, _)
SortPerms(kind, l, I) ==
    IF I = {} THEN {<<>>}
    ELSE UNION {{<<m>> \o rest : rest \in SortPerms(kind, l, I \ {m})} :
                m \in {m \in I : \A j \in I : ~Less(kind, l[j], l[m])}}

\* The orders in which a set of keys may be ranged over.
RECURSIVE Orders(_)
Orders(S) == IF S = {} THEN {<<>>}
             ELSE UNION {{<<x>> \o o : o \in Orders(S \ {x})} : x \in S}

Permute(l, p) == [k \in 1..Len(l) |-> l[p[k]]]

SortSlice(kind, l) == {Permute(l, p) : p \in SortPerms(kind, l, 1..Len(l))}

----------------------------------------------------------------------------
(* BuildFullCodeMetaList *)

Workers == 0..(MaxCPU - 1)

\* A nil *Division, and the zero CharMeta fields.
NilDivision == <<>>

\* batchSize := (len(chars) + concurrency - 1) / concurrency
BatchSize_Floor(n, concurrency) == n \div concurrency

BatchSize(n, concurrency) == (n + concurrency - 1) \div concurrency

\* end := (i + 1) * batchSize, cut to len(chars)
BatchEnd(k, batchSize, n) ==
    IF (k + 1) * batchSize > n THEN n ELSE (k + 1) * batchSize

IsMainDiv_Second(k) == k = 2

\* "MDiv: i == 0": the first decomposition of its character is the primary one.
IsMainDiv(k) == k = 1

\* The CharMeta of decomposition number k (1-based) of character char.  The
\* Division pointer is the pair <<char, k>>: it names table[char][k].
NewCharMeta(char, k) ==
    LET r == calcFullCodeByDiv(table[char][k], mappings)
    IN  [Char |-> char, Full |-> r.full, Code |-> r.code,
         Freq |-> IF char \in DOMAIN freqSet THEN freqSet[char] ELSE 0,
         MDiv |-> IsMainDiv(k), Simp |-> FALSE, Division |-> <<char, k>>]

\* "for i, div := range divs": one CharMeta per decomposition, in order.
CharMetasOf(char) == [k \in 1..Len(table[char]) |-> NewCharMeta(char, k)]

\* The private buffer of the batch chars[start:end] (0-based, end exclusive).
RECURSIVE BatchMetas(_, _)
BatchMetas(start, end) ==
    IF start >= end THEN <<>>
    ELSE CharMetasOf(chars[start + 1]) \o BatchMetas(start + 1, end)

\* One pass of "for i := 0; i < concurrency; i++": an empty batch is skipped,
\* any other is handed to a new goroutine after wg.Add(1).
SpawnBatch ==
    /\ pc = "loop"
    /\ i < numCPU
    /\ LET batchSize == BatchSize(Len(chars), numCPU)
           start == i * batchSize
           end == BatchEnd(i, batchSize, Len(chars))
       IN  IF start >= end
           THEN UNCHANGED <<wg, wpc, batch>>
           ELSE /\ wg' = wg + 1
                /\ wpc' = [wpc EXCEPT ![i] = "run"]
                /\ batch' = [batch EXCEPT ![i] = [start |-> start, end |-> end]]
    /\ i' = i + 1
    /\ UNCHANGED <<outerVars, citiVars, inputVars, calcVars, pc, mutex, localCharMetaList, charMetaList, mainVars>>

\* The loop ends: main goes on to wg.Wait().
LoopDone ==
    /\ pc = "loop"
    /\ i >= numCPU
    /\ pc' = "wait"
    /\ UNCHANGED <<outerVars, citiVars, inputVars, calcVars, workerVars, charMetaList, mainVars>>

\* A worker fills its private buffer from its batch.
WorkerBuild(w) ==
    /\ wpc[w] = "run"
    /\ localCharMetaList' =
           [localCharMetaList EXCEPT ![w] = BatchMetas(batch[w].start, batch[w].end)]
    /\ wpc' = [wpc EXCEPT ![w] = "built"]
    /\ UNCHANGED <<outerVars, citiVars, inputVars, calcVars, pc, i, wg, mutex, batch, charMetaList, mainVars>>

\* mutex.Lock()
WorkerLock(w) ==
    /\ wpc[w] = "built"
    /\ mutex = <<>>
    /\ mutex' = <<w>>
    /\ wpc' = [wpc EXCEPT ![w] = "locked"]
    /\ UNCHANGED <<outerVars, citiVars, inputVars, calcVars, pc, i, wg, batch, localCharMetaList,
                   charMetaList, mainVars>>

\* charMetaList = append(charMetaList, localCharMetaList...)
WorkerAppend(w) ==
    /\ wpc[w] = "locked"
    /\ charMetaList' = charMetaList \o localCharMetaList[w]
    /\ wpc' = [wpc EXCEPT ![w] = "merged"]
    /\ UNCHANGED <<outerVars, citiVars, inputVars, calcVars, pc, i, wg, mutex, batch, localCharMetaList,
                   mainVars>>

\* mutex.Unlock(), then the deferred wg.Done() as the goroutine returns.
WorkerUnlock(w) ==
    /\ wpc[w] = "merged"
    /\ mutex' = <<>>
    /\ wg' = wg - 1
    /\ wpc' = [wpc EXCEPT ![w] = "done"]
    /\ UNCHANGED <<outerVars, citiVars, inputVars, calcVars, pc, i, batch, localCharMetaList,
                   charMetaList, mainVars>>

\* The sort that ends BuildFullCodeMetaList: sortCharMetaByCode in builder.go,
\* sortCharMetaByFreq in the second copy.
FinalSortKind == IF build = "builder" THEN "code" ELSE "freq"

\* wg.Wait() returns once the counter is 0; the list is sorted and returned.
WaitSortReturn ==
    /\ pc = "wait"
    /\ wg = 0
    /\ charMetaList' \in SortSlice(FinalSortKind, charMetaList)
    /\ pc' = "CreateCharCodeMap"
    /\ UNCHANGED <<outerVars, citiVars, inputVars, calcVars, workerVars, mainVars>>

----------------------------------------------------------------------------
(* CreateCharCodeMap, BuildWordsFullCode *)

\* charCodeMap[charMeta.Char] = charMeta.Code for every entry with MDiv, in list
\* order: the last such entry of a character wins.
CreateCharCodeMap(list) ==
    LET mainIdx(c) == {k \in 1..Len(list) : list[k].MDiv /\ list[k].Char = c}
        last(S) == CHOOSE k \in S : \A j \in S : j <= k
    IN  [c \in {list[k].Char : k \in {j \in 1..Len(list) : list[j].MDiv}} |->
            list[last(mainIdx(c))].Code]

LastRune_Fourth(word) == word[4]

\* chars[len(chars)-1]
LastRune(word) == word[Len(word)]

\* The code of one word (a sequence of characters), "" when a rule's lengths fail.
WordFullCode(word, ccm) ==
    IF Len(word) = 2 THEN
        LET firstCode == MapGet(ccm, word[1])
            secondCode == MapGet(ccm, word[2])
        IN  IF Len(firstCode) >= 2 /\ Len(secondCode) >= 2
            THEN Slice(firstCode, 0, 2) \o Slice(secondCode, 0, 2) ELSE <<>>
    ELSE IF Len(word) = 3 THEN
        LET firstCode == MapGet(ccm, word[1])
            secondCode == MapGet(ccm, word[2])
            thirdCode == MapGet(ccm, word[3])
        IN  IF Len(firstCode) >= 1 /\ Len(secondCode) >= 1 /\ Len(thirdCode) >= 2
            THEN Slice(firstCode, 0, 1) \o Slice(secondCode, 0, 1) \o Slice(thirdCode, 0, 2)
            ELSE <<>>
    ELSE IF Len(word) >= 4 THEN
        LET firstCode == MapGet(ccm, word[1])
            secondCode == MapGet(ccm, word[2])
            thirdCode == MapGet(ccm, word[3])
            lastCode == MapGet(ccm, LastRune(word))
        IN  IF Len(firstCode) >= 1 /\ Len(secondCode) >= 1 /\ Len(thirdCode) >= 1
               /\ Len(lastCode) >= 1
            THEN Slice(firstCode, 0, 1) \o Slice(secondCode, 0, 1)
                    \o Slice(thirdCode, 0, 1) \o Slice(lastCode, 0, 1)
            ELSE <<>>
    ELSE <<>>

NewWordCode_NoWeight(entry, code) == [Word |-> entry.Word, Code |-> code, Weight |-> <<>>]

\* &types.WordCode{Word: word, Code: code, Weight: entry.Weight}
NewWordCode(entry, code) == [Word |-> entry.Word, Code |-> code, Weight |-> entry.Weight]

\* One WordCode per entry that got a code, in input order.
RECURSIVE BuildWordsFullCode(_, _)
BuildWordsFullCode(entries, ccm) ==
    IF entries = <<>> THEN <<>>
    ELSE LET entry == Head(entries)
             code == WordFullCode(entry.Word, ccm)
         IN  (IF code # <<>>
              THEN <<NewWordCode(entry, code)>>
              ELSE <<>>) \o BuildWordsFullCode(Tail(entries), ccm)

MainCreateCharCodeMap ==
    /\ pc = "CreateCharCodeMap"
    /\ charCodeMap' = CreateCharCodeMap(charMetaList)
    /\ pc' = "BuildWordsFullCode"
    /\ UNCHANGED <<outerVars, citiVars, inputVars, calcVars, workerVars, charMetaList, wordCodes,
                   simpleVars, wordSimpleCodes>>

MainBuildWordsFullCode ==
    /\ pc = "BuildWordsFullCode"
    /\ wordCodes' = BuildWordsFullCode(wordEntries, charCodeMap)
    /\ pc' = "BuildWordsSimpleCode"
    /\ UNCHANGED <<outerVars, citiVars, inputVars, calcVars, workerVars, charMetaList, charCodeMap,
                   simpleVars, wordSimpleCodes>>

----------------------------------------------------------------------------
(* BuildSimpleCodeList *)

\* lenCodeLimit[n] of a Go map[int]int: 0 when the key is absent.
Limit(limits, n) == IF n \in DOMAIN limits THEN limits[n] ELSE 0

TargetLength_PrefixLength(n) == n

\* "targetLength": prefix length + 1 for prefixes of 1 and 2, else the prefix length.
TargetLength(n) == IF n <= 2 THEN n + 1 ELSE n

\* "samePrefixCount": the results so far of the target length that start with the prefix.
SamePrefixCount(resultData, targetLength, currentPrefix) ==
    Cardinality({k \in 1..Len(resultData) :
                    /\ Len(resultData[k].Code) = targetLength
                    /\ HasPrefix(resultData[k].Code, currentPrefix)})

\* "candidate": the prefix plus the full code's last symbol for prefixes of 1 and 2.
Candidate(code, n) ==
    IF n <= 2 THEN SubSeq(code, 1, n) \o <<code[Len(code)]>> ELSE SubSeq(code, 1, n)

Unused_Always(candidate, used) == TRUE

\* "if !usedCodes[candidate]"
Unused(candidate, used) == candidate \notin used

\* The loop "for i := 0; i < len(code); i++" from prefix length n on: the first
\* candidate that passes, "" when none does.
RECURSIVE Simplify(_, _, _, _, _)
Simplify(code, n, resultData, used, limits) ==
    IF n > Len(code) THEN <<>>
    ELSE LET limit == Limit(limits, n)
         IN  IF limit = 0 THEN Simplify(code, n + 1, resultData, used, limits)
             ELSE IF SamePrefixCount(resultData, TargetLength(n), SubSeq(code, 1, n)) >= limit
                  THEN Simplify(code, n + 1, resultData, used, limits)
             ELSE IF Unused(Candidate(code, n), used) THEN Candidate(code, n)
             ELSE Simplify(code, n + 1, resultData, used, limits)

Accepted_AnyCode(simplified, code) == simplified # <<>>

\* "if simplified != "" && simplified != code"
Accepted(simplified, code) == simplified # <<>> /\ simplified # code

Skipped_Never(word, noSimplifySet) == FALSE

\* "if noSimplifySet[word] { continue }"
Skipped(word, noSimplifySet) == word \in noSimplifySet

\* The loop over sortedList from entry k on.  acc holds resultData, usedCodes,
\* from (the source entry of each result) and panic: code[len(code)-1] of an
\* empty code is an index out of range.
RECURSIVE SimplifyAll(_, _, _, _, _)
SimplifyAll(sortedList, k, acc, limits, noSimplifySet) ==
    IF k > Len(sortedList) \/ acc.panic THEN acc
    ELSE LET charMeta == sortedList[k]
         IN  IF Skipped(charMeta.Char, noSimplifySet)
             THEN SimplifyAll(sortedList, k + 1, acc, limits, noSimplifySet)
             ELSE IF Len(charMeta.Code) = 0 THEN [acc EXCEPT !.panic = TRUE]
             ELSE LET simplified ==
                          Simplify(charMeta.Code, 1, acc.resultData, acc.usedCodes, limits)
                      newCharMeta ==
                          [Char |-> charMeta.Char, Full |-> <<>>, Code |-> simplified,
                           Freq |-> charMeta.Freq, MDiv |-> FALSE, Simp |-> TRUE,
                           Division |-> NilDivision]
                      add == Accepted(simplified, charMeta.Code)
                  IN  SimplifyAll(sortedList, k + 1,
                          [resultData |-> IF add THEN Append(acc.resultData, newCharMeta)
                                          ELSE acc.resultData,
                           from |-> IF add THEN Append(acc.from, charMeta) ELSE acc.from,
                           usedCodes |-> IF simplified # <<>>
                                         THEN acc.usedCodes \cup {simplified}
                                         ELSE acc.usedCodes,
                           panic |-> FALSE],
                          limits, noSimplifySet)

SeqToSet(q) == {q[k] : k \in 1..Len(q)}

\* The second copy ends with sortCharMetaByFreq(resultData); builder.go returns
\* resultData as built.
ResultOrders(resultData) ==
    IF build = "builder" THEN {[k \in 1..Len(resultData) |-> k]}
    ELSE SortPerms("freq", resultData, 1..Len(resultData))

\* Every list BuildSimpleCodeList may return for its three arguments (one per
\* arrangement the two unstable sorts may produce); none when it panics.
SimpleResults(fullCodeList, limits, noSimplify) ==
    UNION { LET out == SimplifyAll(sortedList, 1,
                          [resultData |-> <<>>, from |-> <<>>, usedCodes |-> {},
                           panic |-> FALSE],
                          limits, SeqToSet(noSimplify))
            IN  IF out.panic THEN {}
                ELSE {Permute(out.resultData, p) : p \in ResultOrders(out.resultData)} :
            sortedList \in SortSlice("freqOnly", fullCodeList) }

\* main calls BuildSimpleCodeList(fullCodeMetaList, lenCodeLimit, noSimplifyChars).
MainBuildSimpleCodeList ==
    /\ pc = "BuildSimpleCodeList"
    /\ \E sortedList \in SortSlice("freqOnly", charMetaList) :
          LET out == SimplifyAll(sortedList, 1,
                        [resultData |-> <<>>, from |-> <<>>, usedCodes |-> {},
                         panic |-> FALSE],
                        lenCodeLimit, SeqToSet(noSimplifyChars))
          IN  IF out.panic
              THEN /\ pc' = "panic"
                   /\ UNCHANGED <<simpleCodeList, simpleFrom, usedCodes>>
              ELSE /\ pc' = "write"
                   /\ usedCodes' = out.usedCodes
                   /\ \E p \in ResultOrders(out.resultData) :
                         /\ simpleCodeList' = Permute(out.resultData, p)
                         /\ simpleFrom' = Permute(out.from, p)
    /\ UNCHANGED <<outerVars, citiVars, inputVars, calcVars, workerVars, charMetaList, charCodeMap, wordCodes,
                   wordSimpleCodes>>

----------------------------------------------------------------------------
(* BuildWordsSimpleCode *)

\* fmt.Sprintf("%d", n) for n >= 0.
RECURSIVE Decimal(_)
Decimal(n) == IF n < 10 THEN <<48 + n>> ELSE Decimal(n \div 10) \o <<48 + (n % 10)>>

\* generatePlaceholders: the circled numbers up to maxLimit when maxLimit is
\* 1..10, "(1)", "(2)", ... otherwise; of these, count from startIndex on.
generatePlaceholders(startIndex, count, maxLimit) ==
    IF count <= 0 \/ startIndex > maxLimit THEN <<>>
    ELSE LET placeholders ==
                 IF maxLimit >= 1 /\ maxLimit <= 10
                 THEN [n \in 1..maxLimit |-> <<Circled1 + n - 1>>]
                 ELSE [n \in 1..maxLimit |-> <<40>> \o Decimal(n) \o <<41>>]
             endIndex == IF startIndex + count - 1 > Len(placeholders)
                         THEN Len(placeholders) ELSE startIndex + count - 1
         IN  IF startIndex > Len(placeholders) \/ endIndex - startIndex + 1 <= 0 THEN <<>>
             ELSE SubSeq(placeholders, startIndex, endIndex)

getPlaceholderWeight_Zero(word) == <<45, 48>>

\* getPlaceholderWeight: "-1" .. "-10" for the circled numbers, "-0" otherwise.
getPlaceholderWeight(word) ==
    IF Len(word) = 1 /\ word[1] >= Circled1 /\ word[1] <= Circled10
    THEN <<45>> \o Decimal(word[1] - Circled1 + 1)
    ELSE <<45, 48>>

\* The 24 keys of generateAllBaseCodes, "qtypasdfghjkl;zxcvbnm,./", of which
\* the model uses the first NKeys.
AllKeys == <<113, 116, 121, 112, 97, 115, 100, 102, 103, 104, 106, 107, 108, 59,
             122, 120, 99, 118, 98, 110, 109, 44, 46, 47>>

keys == SubSeq(AllKeys, 1, NKeys)

generateAllBaseCodes_KeysOnly(codeLength) ==
    IF codeLength = 1 THEN [n \in 1..Len(keys) |-> <<keys[n]>>] ELSE <<>>

\* generateAllBaseCodes: every string of codeLength keys (1, 2 or 3), the first
\* key varying slowest.
generateAllBaseCodes(codeLength) ==
    LET K == Len(keys)
    IN  IF codeLength = 1 THEN [n \in 1..K |-> <<keys[n]>>]
        ELSE IF codeLength = 2
        THEN [n \in 1..(K * K) |-> <<keys[((n - 1) \div K) + 1], keys[((n - 1) % K) + 1]>>]
        ELSE IF codeLength = 3
        THEN [n \in 1..(K * K * K) |->
                 <<keys[((n - 1) \div (K * K)) + 1], keys[(((n - 1) \div K) % K) + 1],
                   keys[((n - 1) % K) + 1]>>]
        ELSE <<>>

\* &types.WordSimpleCode{Word: word, Code: code, Weight: weight}
NewWordSimpleCode(word, code, weight) == [Word |-> word, Code |-> code, Weight |-> weight]

BaseCode_Contiguous(code, codeLength, wordLength) ==
    IF Len(code) >= codeLength THEN Slice(code, 0, codeLength) ELSE <<>>

\* "baseCode": symbols 1 and 3 of the code for the two-symbol code of a
\* two-character word, else the first codeLength symbols; "" when the code is
\* too short (the loop continues).
BaseCode(code, codeLength, wordLength) ==
    IF codeLength = 2 /\ wordLength = 2
    THEN IF Len(code) >= 3 THEN Slice(code, 0, 1) \o Slice(code, 2, 3) ELSE <<>>
    ELSE IF Len(code) >= codeLength THEN Slice(code, 0, codeLength) ELSE <<>>

\* codeCounters[codeLength][baseCode], 0 when absent.
CounterGet(codeCounters, codeLength, baseCode) ==
    IF <<codeLength, baseCode>> \in DOMAIN codeCounters
    THEN codeCounters[<<codeLength, baseCode>>] ELSE 0

\* codeCounters[codeLength][baseCode] = value
CounterSet(codeCounters, codeLength, baseCode, value) ==
    [x \in DOMAIN codeCounters \cup {<<codeLength, baseCode>>} |->
        IF x = <<codeLength, baseCode>> THEN value ELSE codeCounters[x]]

HasRoom_Inclusive(currentCount, limit) == currentCount <= limit

\* "if currentCount < limit"
HasRoom(currentCount, limit) == currentCount < limit

\* The loop "for codeLength := 1; codeLength <= 3; codeLength++" from
\* codeLength on: the first base code with room, "" when there is none.
RECURSIVE WordSimplify(_, _, _, _, _)
WordSimplify(code, wordLength, codeLength, codeCounters, limits) ==
    IF codeLength > 3 THEN <<>>
    ELSE LET limit == Limit(limits, codeLength)
             baseCode == BaseCode(code, codeLength, wordLength)
             next == WordSimplify(code, wordLength, codeLength + 1, codeCounters, limits)
         IN  IF limit = 0 THEN next
             ELSE IF codeLength = 2 /\ wordLength # 2 THEN next
             ELSE IF codeLength = 3 /\ wordLength # 3 THEN next
             ELSE IF baseCode = <<>> THEN next
             ELSE IF HasRoom(CounterGet(codeCounters, codeLength, baseCode), limit)
                  THEN baseCode
             ELSE next

\* The loop over sortedWordCodes from entry k on.
RECURSIVE WordsSimplifyAll(_, _, _, _, _)
WordsSimplifyAll(sortedWordCodes, k, resultData, codeCounters, limits) ==
    IF k > Len(sortedWordCodes) THEN resultData
    ELSE LET wordCode == sortedWordCodes[k]
             simplifiedCode ==
                 WordSimplify(wordCode.Code, Len(wordCode.Word), 1, codeCounters, limits)
         IN  IF simplifiedCode = <<>>
             THEN WordsSimplifyAll(sortedWordCodes, k + 1, resultData, codeCounters, limits)
             ELSE WordsSimplifyAll(sortedWordCodes, k + 1,
                      Append(resultData, NewWordSimpleCode(wordCode.Word, simplifiedCode,
                                                           wordCode.Weight)),
                      CounterSet(codeCounters, Len(simplifiedCode), simplifiedCode,
                          CounterGet(codeCounters, Len(simplifiedCode), simplifiedCode) + 1),
                      limits)

\* The placeholder entries for the words of placeholders, all with one code.
PlaceholderEntries(placeholders, code) ==
    [n \in 1..Len(placeholders) |->
        NewWordSimpleCode(placeholders[n], code, getPlaceholderWeight(placeholders[n]))]

PlaceholdersNeeded_OneLess(groupLen, limit) == limit - groupLen - 1

\* "count := limit - len(group)"
PlaceholdersNeeded(groupLen, limit) == limit - groupLen

\* appendGroupPlaceholders: a group shorter than its length's quota is followed
\* by the placeholders from number len(group)+1 on.
appendGroupPlaceholders(result, group, limits) ==
    IF Len(group) = 0 THEN result
    ELSE LET codeLength == Len(group[1].Code)
             limit == Limit(limits, codeLength)
         IN  IF limit = 0 THEN result
             ELSE IF Len(group) < limit
             THEN result \o PlaceholderEntries(
                      generatePlaceholders(Len(group) + 1,
                                           PlaceholdersNeeded(Len(group), limit), limit),
                      group[1].Code)
             ELSE result

\* The loop of addPlaceholdersAfterSort from item k on, then the last group.
RECURSIVE GroupFill(_, _, _, _, _, _)
GroupFill(list, k, result, currentGroup, currentCode, limits) ==
    IF k > Len(list)
    THEN IF Len(currentGroup) > 0
         THEN appendGroupPlaceholders(result \o currentGroup, currentGroup, limits)
         ELSE result
    ELSE LET item == list[k]
         IN  IF item.Code # currentCode
             THEN GroupFill(list, k + 1,
                      IF Len(currentGroup) > 0
                      THEN appendGroupPlaceholders(result \o currentGroup, currentGroup, limits)
                      ELSE result,
                      <<item>>, item.Code, limits)
             ELSE GroupFill(list, k + 1, result, Append(currentGroup, item), currentCode,
                            limits)

\* "hasActualWord": an entry of the list has the base code and a word that
\* isPlaceholder does not take for a placeholder.
HasActualWord(list, baseCode) ==
    \E n \in 1..Len(list) : list[n].Code = baseCode /\ ~isPlaceholder(list[n].Word)

\* The loop "for _, baseCode := range allBaseCodes" from base code number n
\* on: a base code without an actual word gets limit placeholders.
RECURSIVE FillBaseCodes(_, _, _, _, _)
FillBaseCodes(list, allBaseCodes, n, limit, result) ==
    IF n > Len(allBaseCodes) THEN result
    ELSE FillBaseCodes(list, allBaseCodes, n + 1, limit,
             IF HasActualWord(list, allBaseCodes[n]) THEN result
             ELSE result \o PlaceholderEntries(generatePlaceholders(1, limit, limit),
                                               allBaseCodes[n]))

\* The loop "for codeLength := 1; codeLength <= 3; codeLength++" of
\* addAllPossiblePlaceholders from codeLength on.
RECURSIVE AllFill(_, _, _, _)
AllFill(list, codeLength, result, limits) ==
    IF codeLength > 3 THEN result
    ELSE LET limit == Limit(limits, codeLength)
         IN  IF limit = 0 THEN AllFill(list, codeLength + 1, result, limits)
             ELSE AllFill(list, codeLength + 1,
                      FillBaseCodes(list, generateAllBaseCodes(codeLength), 1, limit, result),
                      limits)

addAllPossiblePlaceholders(list, limits) == AllFill(list, 1, list, limits)

addPlaceholdersAfterSort(list, limits) ==
    addAllPossiblePlaceholders(GroupFill(list, 1, <<>>, <<>>, <<>>, limits), limits)

\* Every list BuildWordsSimpleCode may return.  builder.go returns resultData
\* as built; the second copy sorts it with SortWordSimpleCodes and adds the
\* placeholders.
WordSimpleResults(codes, limits) ==
    UNION { LET resultData == WordsSimplifyAll(sortedWordCodes, 1, <<>>, <<>>, limits)
            IN  IF build = "builder" THEN {resultData}
                ELSE {addPlaceholdersAfterSort(sorted, limits) :
                         sorted \in SortSlice("wordSimple", resultData)} :
            sortedWordCodes \in SortSlice("weightOnly", codes) }

\* main calls BuildWordsSimpleCode(wordCodes, wordsLenCodeLimit).
MainBuildWordsSimpleCode ==
    /\ pc = "BuildWordsSimpleCode"
    /\ wordSimpleCodes' \in WordSimpleResults(wordCodes, wordsLenCodeLimit)
    /\ pc' = "BuildSimpleCodeList"
    /\ UNCHANGED <<outerVars, citiVars, inputVars, calcVars, workerVars, charMetaList, charCodeMap, wordCodes,
                   simpleVars>>

\* SortWordSimpleCodes: the arrangements sort.Slice may leave the list in.
SortWordSimpleCodes(list) ==
    SortSlice(IF build = "builder" THEN "wordWeight" ELSE "wordSimple", list)

\* The WORDSSIMPLE writer's "copy(sortedWordSimpleCodes, wordSimpleCodes)" and
\* "tools.SortWordSimpleCodes(sortedWordSimpleCodes)", on their own.
CallSortWordSimpleCodes ==
    /\ pc = "SortWordSimpleCodes"
    /\ sortedWordSimpleCodes' \in SortWordSimpleCodes(wordSimpleCodes)
    /\ pc' = "SortWordSimpleCodesDone"
    /\ UNCHANGED <<inputVars, calcVars, workerVars, charMetaList, mainVars, citiVars,
                   parseVars, firstRun, present, fileCount, outWg, errChan, errCap,
                   closed, writers, writeFails, seen>>

----------------------------------------------------------------------------
(* AddCandidateCodes, AddCandidateCodesWithSimpleSorting *)

candidateSuffixes_Repeated == <<95, 101, 95, 91, 50, 51, 55, 56, 57, 48>>

\* candidateSuffixes: "_", "e", "i", "[", "2", "3", "7", "8", "9", "0"
candidateSuffixes == <<95, 101, 105, 91, 50, 51, 55, 56, 57, 48>>

\* strings.Repeat("=", n)
Repeat(sym, n) == [k \in 1..n |-> sym]

NewCode_NoPages(code, n, bareFirst) ==
    IF n = 0 /\ Len(code) = 4 /\ bareFirst THEN code
    ELSE code \o <<candidateSuffixes[(n % 10) + 1]>>

\* "newCode" of the entry at index n (0-based) of its group.  bareFirst says
\* whether the copy has the branch "i == 0 && len(code) == 4".
NewCode(code, n, bareFirst) ==
    IF n = 0 /\ Len(code) = 4 /\ bareFirst THEN code
    ELSE IF n < 10 THEN code \o <<candidateSuffixes[n + 1]>>
    ELSE LET page == (n - 10) \div 10
             posInPage == (n - 10) % 10
         IN  code \o Repeat(61, page + 1) \o <<candidateSuffixes[posInPage + 1]>>

\* &CitiEntry{Text: ..., Code: newCode, Freq: ..., Source: ...}
NewCitiEntry(entry, newCode) ==
    [Text |-> entry.Text, Code |-> newCode, Freq |-> entry.Freq, Source |-> entry.Source]

\* A nil *CitiEntry.
NilEntry == [Text |-> <<>>, Code |-> <<>>, Freq |-> 0, Source |-> "nil"]

\* codeGroups[code] of AddCandidateCodes: the entries with the code and their
\* indices (0-based), in input order.
RECURSIVE IndexedGroup(_, _, _)
IndexedGroup(entries, code, k) ==
    IF k > Len(entries) THEN <<>>
    ELSE (IF entries[k].Code = code THEN <<[entry |-> entries[k], index |-> k - 1]>>
          ELSE <<>>) \o IndexedGroup(entries, code, k + 1)

\* The first copy of AddCandidateCodes keeps rank 0 of a four-symbol code bare;
\* the second copy has no such branch.
BareFirst == citiCopy = "first"

\* "result[ew.index] = newEntry" for every entry of a sorted group.
StoreGroup(result, group, code) ==
    [k \in 1..Len(result) |->
        IF \E n \in 1..Len(group) : group[n].index = k - 1
        THEN LET n == CHOOSE n \in 1..Len(group) : group[n].index = k - 1
             IN  NewCitiEntry(group[n].entry, NewCode(code, n - 1, BareFirst))
        ELSE result[k]]

\* The loop "for code, group := range codeGroups" of AddCandidateCodes over the
\* codes not yet visited: every result the unstable sorts of the groups allow.
\* The groups write to disjoint indices, so the order of the visits does not
\* matter and one order is followed.
RECURSIVE CandidateResults(_, _, _)
CandidateResults(entries, codes, result) ==
    IF codes = {} THEN {result}
    ELSE LET code == CHOOSE c \in codes : TRUE
             group == IndexedGroup(entries, code, 1)
         IN  IF Len(group) = 1
             THEN CandidateResults(entries, codes \ {code},
                      [result EXCEPT ![group[1].index + 1] = group[1].entry])
             ELSE UNION {CandidateResults(entries, codes \ {code},
                                          StoreGroup(result, sorted, code)) :
                         sorted \in SortSlice("citiFreq", group)}

\* The codes of a list.
CodesOf(entries) == {entries[k].Code : k \in 1..Len(entries)}

\* AddCandidateCodes: the results, nil entries removed.
AddCandidateCodes(entries) ==
    {SelectSeq(result, LAMBDA e : e # NilEntry) :
        result \in CandidateResults(entries, CodesOf(entries),
                                    [k \in 1..Len(entries) |-> NilEntry])}

\* codeGroups[code] of AddCandidateCodesWithSimpleSorting, in input order.
SimpleGroup(entries, code) == SelectSeq(entries, LAMBDA e : e.Code = code)

\* What AddCandidateCodesWithSimpleSorting appends for one group.
SimpleSortedGroup(group, code) ==
    IF Len(group) = 1 THEN group
    ELSE [n \in 1..Len(group) |-> NewCitiEntry(group[n], NewCode(code, n - 1, TRUE))]

\* The loop "for code, group := range codeGroups" in the order the map's
\* iteration visits the codes.
RECURSIVE AppendGroups(_, _, _)
AppendGroups(entries, codeOrder, k) ==
    IF k > Len(codeOrder) THEN <<>>
    ELSE SimpleSortedGroup(SimpleGroup(entries, codeOrder[k]), codeOrder[k])
            \o AppendGroups(entries, codeOrder, k + 1)

\* AddCandidateCodesWithSimpleSorting: one result for every order in which the
\* iteration over the map may visit the codes.
AddCandidateCodesWithSimpleSorting(entries) ==
    {AppendGroups(entries, codeOrder, 1) : codeOrder \in Orders(CodesOf(entries))}

CallAddCandidateCodes ==
    /\ pc = "AddCandidateCodes"
    /\ citiResult' \in AddCandidateCodes(citiEntries)
    /\ pc' = "AddCandidateCodesDone"
    /\ UNCHANGED <<outerVars, citiCopy, citiEntries, inputVars, calcVars, workerVars, charMetaList,
                   mainVars>>

CallAddCandidateCodesWithSimpleSorting ==
    /\ pc = "AddCandidateCodesWithSimpleSorting"
    /\ citiResult' \in AddCandidateCodesWithSimpleSorting(citiEntries)
    /\ pc' = "AddCandidateCodesWithSimpleSortingDone"
    /\ UNCHANGED <<outerVars, citiCopy, citiEntries, inputVars, calcVars, workerVars, charMetaList,
                   mainVars>>

----------------------------------------------------------------------------
(* ParseLenCodeLimit and main's parsing of the quota tables *)

\* strings.Split(s, sep) for a one-byte separator: the pieces between the
\* separators; a string without the separator is one piece, the empty string
\* too.
RECURSIVE Split(_, _)
Split(s, sep) ==
    IF \A k \in 1..Len(s) : s[k] # sep THEN <<s>>
    ELSE LET k == CHOOSE j \in 1..Len(s) : s[j] = sep /\ \A h \in 1..(j - 1) : s[h] # sep
         IN  <<SubSeq(s, 1, k - 1)>> \o Split(SubSeq(s, k + 1, Len(s)), sep)

\* unicode.IsSpace on the one-byte characters.
IsSpace(b) == b \in {9, 10, 11, 12, 13, 32}

\* strings.TrimSpace
RECURSIVE TrimSpace(_)
TrimSpace(s) ==
    IF s = <<>> THEN s
    ELSE IF IsSpace(s[1]) THEN TrimSpace(Tail(s))
    ELSE IF IsSpace(s[Len(s)]) THEN TrimSpace(SubSeq(s, 1, Len(s) - 1))
    ELSE s

\* strconv.Atoi: an optional sign and one or more decimal digits; anything
\* else is an error.
Atoi(s) ==
    IF s = <<>> THEN [n |-> 0, err |-> TRUE]
    ELSE LET signed == s[1] \in {43, 45}
             digits == IF signed THEN Tail(s) ELSE s
         IN  IF digits = <<>> \/ \E k \in 1..Len(digits) : digits[k] < 48 \/ digits[k] > 57
             THEN [n |-> 0, err |-> TRUE]
             ELSE [n |-> IF s[1] = 45 THEN 0 - DigitsValue(digits) ELSE DigitsValue(digits),
                   err |-> FALSE]

\* limits[length] = limit
MapPut(m, k, v) == [x \in DOMAIN m \cup {k} |-> IF x = k THEN v ELSE m[x]]

\* Whether the loop of ParseLenCodeLimit skips a pair: it does when the pair
\* does not consist of exactly two parts around one colon.
SkipsPair(parts) == Len(parts) # 2

\* The loop of ParseLenCodeLimit from the k-th pair on.
RECURSIVE ParsePairs(_, _, _)
ParsePairs(pairs, k, limits) ==
    IF k > Len(pairs) THEN [limits |-> limits, err |-> FALSE]
    ELSE LET parts == Split(pairs[k], 58)
         IN  IF SkipsPair(parts) THEN ParsePairs(pairs, k + 1, limits)
             ELSE LET length == Atoi(TrimSpace(parts[1]))
                      limit == Atoi(TrimSpace(parts[2]))
                  IN  IF length.err \/ limit.err THEN [limits |-> <<>>, err |-> TRUE]
                      ELSE ParsePairs(pairs, k + 1, MapPut(limits, length.n, limit.n))

\* ParseLenCodeLimit: the table and whether an error is returned.
ParseLenCodeLimit(limitStr) ==
    IF limitStr = <<>> THEN [limits |-> <<>>, err |-> FALSE]
    ELSE ParsePairs(Split(limitStr, 44), 1, <<>>)

\* main parses -l; log.Fatalf ends the process on an error.
MainParseLenCodeLimit ==
    /\ pc = "ParseLenCodeLimit"
    /\ LET r == ParseLenCodeLimit(args.LenCodeLimit)
       IN  IF r.err THEN pc' = "fatal" /\ UNCHANGED lenCodeLimit
           ELSE pc' = "ParseWordsLenCodeLimit" /\ lenCodeLimit' = r.limits
    /\ UNCHANGED <<build, mappings, table, freqSet, numCPU, chars, wordEntries,
                   noSimplifyChars, wordsLenCodeLimit, calcVars, workerVars,
                   charMetaList, mainVars, citiVars, outerVars>>

\* main parses -wL.
MainParseWordsLenCodeLimit ==
    /\ pc = "ParseWordsLenCodeLimit"
    /\ LET r == ParseLenCodeLimit(args.WordsLenCodeLimit)
       IN  IF r.err THEN pc' = "fatal" /\ UNCHANGED wordsLenCodeLimit
           ELSE pc' = "ParseLinglongLenCodeLimit" /\ wordsLenCodeLimit' = r.limits
    /\ UNCHANGED <<build, mappings, table, freqSet, numCPU, chars, wordEntries,
                   noSimplifyChars, lenCodeLimit, calcVars, workerVars,
                   charMetaList, mainVars, citiVars, outerVars>>

\* main parses -ll.
MainParseLinglongLenCodeLimit ==
    /\ pc = "ParseLinglongLenCodeLimit"
    /\ LET r == ParseLenCodeLimit(args.LinglongLenCodeLimit)
       IN  IF r.err THEN pc' = "fatal" /\ UNCHANGED linglongLenCodeLimit
           ELSE pc' = "ReadDivisionTable" /\ linglongLenCodeLimit' = r.limits
    /\ UNCHANGED <<inputVars, calcVars, workerVars, charMetaList, mainVars, citiVars,
                   args, firstRun, writeVars>>

\* main loads the decomposition table, the component map and the frequencies
\* (a reader's error ends the process), and calls BuildFullCodeMetaList.
MainReadTables ==
    /\ pc = "ReadDivisionTable"
    /\ \/ /\ pc' = "fatal"
          /\ UNCHANGED <<table, freqSet, chars>>
       \/ /\ table' \in {<<>>, <<(<< <<1>> >>)>>}
          /\ freqSet' \in {<<>>, <<1>>}
          /\ chars' \in Orders(DOMAIN table')
          /\ pc' = "loop"
    /\ UNCHANGED <<build, mappings, numCPU, wordEntries, lenCodeLimit, noSimplifyChars,
                   wordsLenCodeLimit, calcVars, workerVars, charMetaList, mainVars,
                   citiVars, outerVars>>

----------------------------------------------------------------------------
(* main's parallel output phase *)

\* The files in the order of main's go statements.
Outputs == <<"FULLCHAR", "SIMPLECODE", "DIVISION", "DAZHUCHAI", "WORDSFULL",
             "WORDSSIMPLE", "LINGLONGFULL", "LINGLONGSIMPLE">>

Files == {Outputs[k] : k \in 1..Len(Outputs)}

\* The files main writes only when their table is not nil: wordCodes,
\* wordSimpleCodes, linglongCodes, linglongSimpleCodes.
Optional == {"WORDSFULL", "WORDSSIMPLE", "LINGLONGFULL", "LINGLONGSIMPLE"}

\* fileCount := 4, and fileCount++ for every optional table that is not nil.
FileCount_BaseOnly(tables) == 4
FileCount(tables) == 4 + Cardinality(tables \cap Optional)

\* wg.Add(fileCount); errChan := make(chan error, fileCount)
MainCountFiles ==
    /\ pc = "write"
    /\ fileCount' = FileCount(present)
    /\ outWg' = fileCount'
    /\ errCap' = fileCount'
    /\ pc' = "go"
    /\ UNCHANGED <<inputVars, calcVars, workerVars, charMetaList, mainVars, citiVars,
                   parseVars, firstRun, present, errChan, closed, writers, writeFails,
                   seen, sortedWordSimpleCodes>>

\* One go statement, that of the first file main has not passed: the
\* goroutine starts, unless the statement stands under
\* "if table != nil" and the table is nil.
MainGo ==
    /\ pc = "go"
    /\ \E f \in Files : writers[f] = "none"
    /\ LET k == CHOOSE n \in 1..Len(Outputs) :
                    /\ writers[Outputs[n]] = "none"
                    /\ \A h \in 1..(n - 1) : writers[Outputs[h]] # "none"
           f == Outputs[k]
       IN  writers' = [writers EXCEPT
                          ![f] = IF f \in Optional /\ f \notin present THEN "nil" ELSE "run"]
    /\ UNCHANGED <<inputVars, calcVars, pc, workerVars, charMetaList, mainVars, citiVars,
                   parseVars, firstRun, present, fileCount, outWg, errChan, errCap,
                   closed, writeFails, seen, sortedWordSimpleCodes>>

\* wg.Wait() returns when the counter is zero.
MainWait ==
    /\ pc = "go"
    /\ \A f \in Files : writers[f] # "none"
    /\ outWg = 0
    /\ pc' = "close"
    /\ UNCHANGED <<inputVars, calcVars, workerVars, charMetaList, mainVars, citiVars,
                   outerVars>>

\* close(errChan)
MainClose ==
    /\ pc = "close"
    /\ closed' = TRUE
    /\ pc' = "range"
    /\ UNCHANGED <<inputVars, calcVars, workerVars, charMetaList, mainVars, citiVars,
                   parseVars, firstRun, present, fileCount, outWg, errChan, errCap,
                   writers, writeFails, seen, sortedWordSimpleCodes>>

\* for err := range errChan { log.Fatalln(err) }: the first error received
\* ends the process; a closed and empty channel ends the loop.
MainRange ==
    /\ pc = "range"
    /\ closed
    /\ IF errChan # <<>>
       THEN /\ seen' = Append(seen, Head(errChan))
            /\ errChan' = Tail(errChan)
            /\ pc' = "fatal"
       ELSE /\ pc' = "done"
            /\ UNCHANGED <<seen, errChan>>
    /\ UNCHANGED <<inputVars, calcVars, workerVars, charMetaList, mainVars, citiVars,
                   parseVars, firstRun, present, fileCount, outWg, errCap, closed,
                   writers, writeFails, sortedWordSimpleCodes>>

\* A writer fills its buffer (the writer of WORDSSIMPLE from a sorted copy
\* of wordSimpleCodes) and calls os.WriteFile.  When that succeeds the
\* deferred wg.Done() runs.  When it fails the writer reports: "errChan <-
\* err" needs room in the buffer (main receives only after wg.Wait()), and a
\* send on a closed channel panics.
WriterWrite(f) ==
    /\ writers[f] = "run"
    /\ f \in writeFails => closed \/ Len(errChan) < errCap
    /\ sortedWordSimpleCodes' \in IF f = "WORDSSIMPLE"
                                  THEN SortWordSimpleCodes(wordSimpleCodes)
                                  ELSE {sortedWordSimpleCodes}
    /\ IF f \notin writeFails
       THEN /\ writers' = [writers EXCEPT ![f] = "done"]
            /\ outWg' = outWg - 1
            /\ UNCHANGED <<pc, errChan>>
       ELSE IF closed
       THEN /\ pc' = "panic"
            /\ UNCHANGED <<writers, outWg, errChan>>
       ELSE /\ errChan' = Append(errChan, f)
            /\ writers' = [writers EXCEPT ![f] = "sent"]
            /\ UNCHANGED <<pc, outWg>>
    /\ UNCHANGED <<inputVars, calcVars, workerVars, charMetaList, mainVars, citiVars,
                   parseVars, firstRun, present, fileCount, errCap, closed, writeFails,
                   seen>>

\* The deferred wg.Done() of a writer that has reported.
WriterDone(f) ==
    /\ writers[f] = "sent"
    /\ outWg' = outWg - 1
    /\ writers' = [writers EXCEPT ![f] = "done"]
    /\ UNCHANGED <<inputVars, calcVars, pc, workerVars, charMetaList, mainVars, citiVars,
                   parseVars, firstRun, present, fileCount, errChan, errCap, closed,
                   writeFails, seen, sortedWordSimpleCodes>>

----------------------------------------------------------------------------
(* Values of the variables a specification does not use *)

NoCalc == div = <<>> /\ calcOut = [full |-> <<>>, code |-> <<>>]

NoWorkers ==
    /\ i = 0
    /\ wg = 0
    /\ mutex = <<>>
    /\ wpc = [w \in Workers |-> "none"]
    /\ batch = [w \in Workers |-> [start |-> 0, end |-> 0]]
    /\ localCharMetaList = [w \in Workers |-> <<>>]

NoTable == table = <<>> /\ freqSet = <<>> /\ numCPU = 1 /\ chars = <<>>

NoMain ==
    /\ charCodeMap = <<>>
    /\ wordCodes = <<>>
    /\ simpleCodeList = <<>>
    /\ simpleFrom = <<>>
    /\ usedCodes = {}
    /\ wordSimpleCodes = <<>>

NoCiti == citiCopy = "first" /\ citiEntries = <<>> /\ citiResult = <<>>

\* The component code map: 1 is "a", 2 is "Bab", 3 has the empty code, and
\* component 4 is not in the map.
MainMappings == (1 :> <<97>>) @@ (2 :> <<66, 97, 98>>) @@ (3 :> <<>>)

\* main's defaults: -l "1:4,2:4,3:0,4:0" and noSimplifyChars.  Character 1
\* stands for one of the two characters main excludes.
MainLenCodeLimit == (1 :> 4) @@ (2 :> 4) @@ (3 :> 0) @@ (4 :> 0)

MainNoSimplifyChars == <<1>>

\* main's default -wL "1:4,2:4,3:4,4:0".
MainWordsLenCodeLimit == (1 :> 4) @@ (2 :> 4) @@ (3 :> 4) @@ (4 :> 0)

\* main's defaults -l, -wL and -ll.
MainArgs ==
    [LenCodeLimit |-> <<49, 58, 52, 44, 50, 58, 52, 44, 51, 58, 48, 44, 52, 58, 48>>,
     WordsLenCodeLimit |-> <<49, 58, 52, 44, 50, 58, 52, 44, 51, 58, 52, 44, 52, 58, 48>>,
     LinglongLenCodeLimit |-> <<49, 58, 52, 44, 50, 58, 52, 44, 51, 58, 52, 44, 52, 58, 48>>]

NoArgs == args = MainArgs /\ linglongLenCodeLimit = MainWordsLenCodeLimit

NoWriters ==
    /\ present = {}
    /\ fileCount = 0
    /\ outWg = 0
    /\ errChan = <<>>
    /\ errCap = 0
    /\ closed = FALSE
    /\ writers = [f \in Files |-> "none"]
    /\ writeFails = {}
    /\ seen = <<>>
    /\ sortedWordSimpleCodes = <<>>

NoOuter == NoArgs /\ firstRun = <<>> /\ NoWriters

----------------------------------------------------------------------------
(* SpecCalc: calcFullCodeByDiv on every decomposition of up to MaxArity    *)
(* components over two component symbols, under every code map that gives  *)
(* each of them a code of up to MaxCodeLen symbols (the empty code too).   *)

CalcComps == {1, 2}

CalcCodes == StringsUpTo(Alphabet, MaxCodeLen)

CalcDivs == {d \in StringsUpTo(CalcComps, MaxArity) : Len(d) >= 1}

InitCalc ==
    /\ build = "builder"      \* both copies hold the same calcFullCodeByDiv
    /\ mappings \in [CalcComps -> CalcCodes]
    /\ div \in CalcDivs
    /\ calcOut = [full |-> <<>>, code |-> <<>>]
    /\ pc = "calcFullCodeByDiv"
    /\ NoTable /\ NoWorkers /\ NoOuter /\ NoCiti /\ NoMain
    /\ charMetaList = <<>>
    /\ wordEntries = <<>>
    /\ lenCodeLimit = MainLenCodeLimit
    /\ noSimplifyChars = MainNoSimplifyChars
    /\ wordsLenCodeLimit = MainWordsLenCodeLimit

CallCalc ==
    /\ pc = "calcFullCodeByDiv"
    /\ calcOut' = calcFullCodeByDiv(div, mappings)
    /\ pc' = "calcDone"
    /\ UNCHANGED <<outerVars, citiVars, inputVars, div, workerVars, charMetaList, mainVars>>

NextCalc == CallCalc

SpecCalc == InitCalc /\ [][NextCalc]_vars

----------------------------------------------------------------------------
(* SpecSimple: BuildSimpleCodeList on every list of up to MaxList entries  *)
(* (distinct characters, four-symbol full codes) under every quota table   *)
(* of SimpleLimits.                                                        *)

\* Full codes "aaab", "aabb", "abab": shared prefixes of 1, 2 and 3 symbols
\* and a shared last symbol.
SimpleCodes == {<<97, 97, 97, 98>>, <<97, 97, 98, 98>>, <<97, 98, 97, 98>>}

SimpleFreqs == {1, 2}

\* The entry at position k of an input list: character k, its primary decomposition.
SimpleEntries(k) ==
    {[Char |-> k, Full |-> code, Code |-> code, Freq |-> freq, MDiv |-> TRUE,
      Simp |-> FALSE, Division |-> <<k, 1>>] : code \in SimpleCodes, freq \in SimpleFreqs}

\* The lists of n entries in the order BuildFullCodeMetaList's closing sort
\* (of kind "code" or "freq") leaves them in: main hands over its result.
RECURSIVE SimpleLists(_, _)
SimpleLists(kind, n) ==
    IF n = 0 THEN {<<>>}
    ELSE UNION {{Append(l, e) : e \in {x \in SimpleEntries(n) :
                                          \A j \in 1..(n - 1) : ~Less(kind, x, l[j])}} :
                l \in SimpleLists(kind, n - 1)}

SimpleInputs(kind) == UNION {SimpleLists(kind, n) : n \in 0..MaxList}

\* Quota tables over the prefix lengths 1..4; a length may also be absent.
SimpleLimits ==
    {q \in [1..4 -> 0..2] : q[3] <= 1 /\ q[4] <= 1} \cup {(2 :> 1), (1 :> 1) @@ (3 :> 1)}

InitSimple ==
    /\ build \in {"builder", "part_000"}
    /\ mappings = MainMappings
    /\ wordEntries = <<>>
    /\ lenCodeLimit \in SimpleLimits
    /\ noSimplifyChars = <<>>
    /\ wordsLenCodeLimit = MainWordsLenCodeLimit
    /\ charMetaList \in SimpleInputs(FinalSortKind)
    /\ pc = "BuildSimpleCodeList"
    /\ NoTable /\ NoCalc /\ NoWorkers /\ NoOuter /\ NoCiti /\ NoMain

NextSimple == MainBuildSimpleCodeList

SpecSimple == InitSimple /\ [][NextSimple]_vars

----------------------------------------------------------------------------
(* SpecExclude: BuildSimpleCodeList with a no-simplify list, on the lists  *)
(* of SpecSimple.                                                          *)

\* Quotas: main's default, one code per prefix, and one code per prefix of 2 or 3.
ExcludeLimits == { MainLenCodeLimit,
                   (1 :> 1) @@ (2 :> 1) @@ (3 :> 1) @@ (4 :> 0),
                   (2 :> 1) @@ (3 :> 1) }

\* No-simplify lists: empty, one character, two characters, a repeated character.
ExcludeLists == { <<>>, <<1>>, <<2>>, <<1, 3>>, <<2, 2>> }

InitExclude ==
    /\ build \in {"builder", "part_000"}
    /\ mappings = MainMappings
    /\ wordEntries = <<>>
    /\ lenCodeLimit \in ExcludeLimits
    /\ noSimplifyChars \in ExcludeLists
    /\ wordsLenCodeLimit = MainWordsLenCodeLimit
    /\ charMetaList \in SimpleInputs(FinalSortKind)
    /\ pc = "BuildSimpleCodeList"
    /\ NoTable /\ NoCalc /\ NoWorkers /\ NoOuter /\ NoCiti /\ NoMain

NextExclude == MainBuildSimpleCodeList

SpecExclude == InitExclude /\ [][NextExclude]_vars

----------------------------------------------------------------------------
(* SpecWords: BuildWordsFullCode on every list of up to MaxWords words of  *)
(* up to MaxWordLen characters, under character-code maps that hold full,  *)
(* short, empty and no codes.                                              *)

\* Words of n characters: character 1 everywhere but for at most one place
\* that holds character 2.
WordsOfLen(n) == {[j \in 1..n |-> IF j = q THEN 2 ELSE 1] : q \in 0..n}

WordMenu == UNION {WordsOfLen(n) : n \in 1..MaxWordLen}

\* Lists of n entries; the entry at position k has the weight "k".
RECURSIVE WordLists(_)
WordLists(n) ==
    IF n = 0 THEN {<<>>}
    ELSE {Append(l, [Word |-> w, Weight |-> <<48 + n>>]) : l \in WordLists(n - 1), w \in WordMenu}

\* Character 1 has the code "qaaa", "q" or none; character 2 has "wbbc", the
\* empty code or none.
WordsCharCodeMaps ==
    {m1 @@ m2 : m1 \in {<<>>, (1 :> <<113>>), (1 :> <<113, 97, 97, 97>>)},
                m2 \in {<<>>, (2 :> <<>>), (2 :> <<119, 98, 98, 99>>)}}

InitWords ==
    /\ build = "builder"      \* both copies hold the same BuildWordsFullCode
    /\ mappings = MainMappings
    /\ wordEntries \in UNION {WordLists(n) : n \in 0..MaxWords}
    /\ charCodeMap \in WordsCharCodeMaps
    /\ wordCodes = <<>>
    /\ simpleCodeList = <<>> /\ simpleFrom = <<>> /\ usedCodes = {}
    /\ wordSimpleCodes = <<>>
    /\ lenCodeLimit = MainLenCodeLimit
    /\ noSimplifyChars = MainNoSimplifyChars
    /\ wordsLenCodeLimit = MainWordsLenCodeLimit
    /\ charMetaList = <<>>
    /\ pc = "BuildWordsFullCode"
    /\ NoTable /\ NoCalc /\ NoWorkers /\ NoOuter /\ NoCiti

NextWords == MainBuildWordsFullCode

SpecWords == InitWords /\ [][NextWords]_vars

----------------------------------------------------------------------------
(* SpecWordsSimple: BuildWordsSimpleCode on every list of up to MaxWords   *)
(* word codes, under the quota tables of WordsLimits.                      *)

\* Words of two, three and four characters.
SimpleWords == << <<1, 2>>, <<1, 2, 1>>, <<1, 1, 2, 1>> >>

\* Full codes "qqtq" and "qtqq" (over the keys) and the short code "wq" ("w" is
\* not a key).
SimpleWordCodes == << <<113, 113, 116, 113>>, <<113, 116, 113, 113>>, <<119, 113>> >>

\* Weights "2" and "1".
SimpleWeights == << <<50>>, <<49>> >>

\* Entry number n of the menu: every word with every code and every weight.
WordCodeMenu(n) ==
    [Word |-> SimpleWords[((n - 1) \div (Len(SimpleWordCodes) * Len(SimpleWeights))) + 1],
     Code |-> SimpleWordCodes[(((n - 1) \div Len(SimpleWeights)) % Len(SimpleWordCodes)) + 1],
     Weight |-> SimpleWeights[((n - 1) % Len(SimpleWeights)) + 1]]

MenuSize == Len(SimpleWords) * Len(SimpleWordCodes) * Len(SimpleWeights)

\* Lists of n entries in menu order.  BuildWordsSimpleCode first sorts a copy
\* of its input with sort.Slice, whose outcomes are the same for every
\* arrangement of the same entries, so one arrangement of each is enough.
RECURSIVE WordCodeLists(_, _)
WordCodeLists(n, from) ==
    IF n = 0 THEN {<<>>}
    ELSE UNION {{<<WordCodeMenu(m)>> \o l : l \in WordCodeLists(n - 1, m)} :
                m \in from..MenuSize}

\* Quota tables: main's default, one entry per code, none of one symbol, only
\* two-symbol codes, and a quota beyond the ten circled numbers.
WordsLimits == { MainWordsLenCodeLimit,
                 (1 :> 1) @@ (2 :> 1) @@ (3 :> 1),
                 (1 :> 0) @@ (2 :> 2) @@ (3 :> 1),
                 (2 :> 1),
                 (1 :> 11) }

InitWordsSimple ==
    /\ build \in {"builder", "part_000"}
    /\ mappings = MainMappings
    /\ wordEntries = <<>>
    /\ charCodeMap = <<>>
    /\ wordCodes \in UNION {WordCodeLists(n, 1) : n \in 0..MaxWords}
    /\ wordsLenCodeLimit \in WordsLimits
    /\ lenCodeLimit = MainLenCodeLimit
    /\ noSimplifyChars = <<>>
    /\ simpleCodeList = <<>> /\ simpleFrom = <<>> /\ usedCodes = {}
    /\ wordSimpleCodes = <<>>
    /\ charMetaList = <<>>
    /\ pc = "BuildWordsSimpleCode"
    /\ NoTable /\ NoCalc /\ NoWorkers /\ NoOuter /\ NoCiti

NextWordsSimple == MainBuildWordsSimpleCode

SpecWordsSimple == InitWordsSimple /\ [][NextWordsSimple]_vars

----------------------------------------------------------------------------
(* SpecCiti: the two candidate-code transforms on every list of up to      *)
(* MaxCiti entries, and on lists of up to MaxGroup entries with one code   *)
(* (ten ranks to a page of suffixes).                                      *)

\* Codes "q", "qq" and the four-symbol "qqtq", over the keys.
CitiCodes == {<<113>>, <<113, 113>>, <<113, 113, 116, 113>>}

CitiFreqs == {1, 2}

\* Lists of n entries; the text of the entry at position k is the character k.
RECURSIVE CitiLists(_)
CitiLists(n) ==
    IF n = 0 THEN {<<>>}
    ELSE {Append(l, [Text |-> <<n>>, Code |-> c, Freq |-> f, Source |-> "words_simp"]) :
              l \in CitiLists(n - 1), c \in CitiCodes, f \in CitiFreqs}

\* Frequencies of the entries of a one-code list of n entries: ascending,
\* descending, or scattered (k * 5 mod 23 is one-to-one on 1..22).
GroupFreq(pattern, n, k) ==
    CASE pattern = "ascending" -> k
      [] pattern = "descending" -> n + 1 - k
      [] pattern = "scattered" -> (k * 5) % 23

CitiGroups ==
    {[k \in 1..n |-> [Text |-> <<k>>, Code |-> c, Freq |-> GroupFreq(pattern, n, k),
                      Source |-> "words_full"]] :
        n \in 2..MaxGroup, c \in {<<113>>, <<113, 113, 116, 113>>},
        pattern \in {"ascending", "descending", "scattered"}}

InitCiti ==
    /\ build = "builder"
    /\ mappings = MainMappings
    /\ wordEntries = <<>>
    /\ lenCodeLimit = MainLenCodeLimit
    /\ noSimplifyChars = <<>>
    /\ wordsLenCodeLimit = MainWordsLenCodeLimit
    /\ charMetaList = <<>>
    /\ citiEntries \in UNION {CitiLists(n) : n \in 0..MaxCiti} \cup CitiGroups
    /\ citiResult = <<>>
    /\ \/ pc = "AddCandidateCodes" /\ citiCopy \in {"first", "second"}
       \/ pc = "AddCandidateCodesWithSimpleSorting" /\ citiCopy = "first"
    /\ NoTable /\ NoCalc /\ NoWorkers /\ NoOuter /\ NoMain

NextCiti ==
    \/ CallAddCandidateCodes
    \/ CallAddCandidateCodesWithSimpleSorting

SpecCiti == InitCiti /\ [][NextCiti]_vars

----------------------------------------------------------------------------
(* SpecParse: main from its first ParseLenCodeLimit to the loading of the  *)
(* tables, for -l every string of up to MaxCfg symbols and every list of   *)
(* up to MaxPairs pairs.                                                   *)

\* '1', ':', ',', ' ', '-', 'x'
CfgAlphabet == {49, 58, 44, 32, 45, 120}

\* What may stand between two commas: "", "1:1", "1:11", "11:1", "-1:1",
\* "1:-1", "+1:1", " 1: 1 ", "1 1:1", "1", "x", "1:x", "x:1", "1:", ":1", ":",
\* "1:1:1", "1;1".
Pairs == { <<>>, <<49, 58, 49>>, <<49, 58, 49, 49>>, <<49, 49, 58, 49>>,
           <<45, 49, 58, 49>>, <<49, 58, 45, 49>>, <<43, 49, 58, 49>>,
           <<32, 49, 58, 32, 49, 32>>, <<49, 32, 49, 58, 49>>,
           <<49>>, <<120>>, <<49, 58, 120>>, <<120, 58, 49>>, <<49, 58>>, <<58, 49>>,
           <<58>>, <<49, 58, 49, 58, 49>>, <<49, 59, 49>> }

\* The strings of up to n pairs with commas between them.
RECURSIVE PairLists(_)
PairLists(n) ==
    IF n = 1 THEN Pairs
    ELSE LET shorter == PairLists(n - 1)
         IN  shorter \cup {s \o <<44>> \o p : s \in shorter, p \in Pairs}

ConfigStrings == StringsUpTo(CfgAlphabet, MaxCfg) \cup PairLists(MaxPairs)

\* -wL and -ll: the default, "x" or "1:x"
ConfigMenu == {MainArgs.WordsLenCodeLimit, <<120>>, <<49, 58, 120>>}

InitParse ==
    /\ build = "builder"
    /\ mappings = MainMappings
    /\ wordEntries = <<>>
    /\ lenCodeLimit = <<>>
    /\ noSimplifyChars = <<>>
    /\ wordsLenCodeLimit = <<>>
    /\ linglongLenCodeLimit = <<>>
    /\ charMetaList = <<>>
    /\ args \in [LenCodeLimit : ConfigStrings, WordsLenCodeLimit : ConfigMenu,
                 LinglongLenCodeLimit : ConfigMenu]
    /\ pc = "ParseLenCodeLimit"
    /\ firstRun = <<>>
    /\ NoTable /\ NoCalc /\ NoWorkers /\ NoCiti /\ NoMain /\ NoWriters

NextParse ==
    \/ MainParseLenCodeLimit
    \/ MainParseWordsLenCodeLimit
    \/ MainParseLinglongLenCodeLimit
    \/ MainReadTables

SpecParse == InitParse /\ [][NextParse]_vars

----------------------------------------------------------------------------
(* SpecSort: SortWordSimpleCodes on what BuildWordsSimpleCode returns for  *)
(* up to MaxSort word codes with weights "", "0", "3" and "-3".            *)

SortWeights == << <<>>, <<48>>, <<51>>, <<45, 51>> >>

\* Entry number n of the menu: the words of two characters 1 2 and 2 1, the
\* full codes "qqtq" and "qtqq", every weight.
SortMenu(n) ==
    [Word |-> IF (n - 1) \div (2 * Len(SortWeights)) = 0 THEN <<1, 2>> ELSE <<2, 1>>,
     Code |-> SimpleWordCodes[(((n - 1) \div Len(SortWeights)) % 2) + 1],
     Weight |-> SortWeights[((n - 1) % Len(SortWeights)) + 1]]

\* Lists of n word codes in menu order (BuildWordsSimpleCode sorts a copy).
RECURSIVE SortWordLists(_, _)
SortWordLists(n, from) ==
    IF n = 0 THEN {<<>>}
    ELSE UNION {{<<SortMenu(m)>> \o l : l \in SortWordLists(n - 1, m)} :
                m \in from..(4 * Len(SortWeights))}

\* Quotas of two one-symbol codes, and of three with one two-symbol code.
SortLimits == { (1 :> 2), (1 :> 3) @@ (2 :> 1) }

InitSort ==
    /\ build \in {"builder", "part_000"}
    /\ mappings = MainMappings
    /\ wordEntries = <<>>
    /\ charCodeMap = <<>>
    /\ wordCodes \in UNION {SortWordLists(n, 1) : n \in 0..MaxSort}
    /\ wordsLenCodeLimit \in SortLimits
    /\ lenCodeLimit = MainLenCodeLimit
    /\ noSimplifyChars = <<>>
    /\ simpleCodeList = <<>> /\ simpleFrom = <<>> /\ usedCodes = {}
    /\ wordSimpleCodes \in WordSimpleResults(wordCodes, wordsLenCodeLimit)
    /\ charMetaList = <<>>
    /\ pc = "SortWordSimpleCodes"
    /\ NoTable /\ NoCalc /\ NoWorkers /\ NoOuter /\ NoCiti

NextSort == CallSortWordSimpleCodes

SpecSort == InitSort /\ [][NextSort]_vars

----------------------------------------------------------------------------
(* SpecWrite: main's parallel output phase for every combination of the   *)
(* optional tables, with up to MaxFails files that cannot be written.      *)
(* SpecWriteFair adds what Go's scheduler gives: main and every started    *)
(* goroutine go on running as long as they are not blocked.                *)

\* The files that may be impossible to write are the first, an optional one
\* in the middle, and the last.
InitWrite ==
    /\ build = "builder"
    /\ mappings = MainMappings
    /\ wordEntries = <<>>
    /\ lenCodeLimit = MainLenCodeLimit
    /\ noSimplifyChars = MainNoSimplifyChars
    /\ wordsLenCodeLimit = MainWordsLenCodeLimit
    /\ charMetaList = <<>>
    /\ pc = "write"
    /\ present \in SUBSET Optional
    /\ writeFails \in {F \in SUBSET ({"FULLCHAR", "WORDSFULL", "LINGLONGSIMPLE"}
                                     \ (Optional \ present)) :
                          Cardinality(F) <= MaxFails}
    /\ fileCount = 0
    /\ outWg = 0
    /\ errChan = <<>>
    /\ errCap = 0
    /\ closed = FALSE
    /\ writers = [f \in Files |-> "none"]
    /\ seen = <<>>
    /\ sortedWordSimpleCodes = <<>>
    /\ firstRun = <<>>
    /\ NoArgs /\ NoTable /\ NoCalc /\ NoWorkers /\ NoCiti /\ NoMain

MainOutput == MainCountFiles \/ MainGo \/ MainWait \/ MainClose \/ MainRange

Writer(f) == WriterWrite(f) \/ WriterDone(f)

NextWrite ==
    \/ MainCountFiles
    \/ MainGo
    \/ MainWait
    \/ MainClose
    \/ MainRange
    \/ \E f \in Files : WriterWrite(f)
    \/ \E f \in Files : WriterDone(f)

SpecWrite == InitWrite /\ [][NextWrite]_vars

SpecWriteFair ==
    /\ InitWrite
    /\ [][NextWrite]_vars
    /\ WF_vars(MainOutput)
    /\ \A f \in Files : WF_vars(Writer(f))

----------------------------------------------------------------------------
(* Spec: main's pipeline on a decomposition table of up to NChars          *)
(* characters, with up to MaxCPU processors.                               *)

\* What a character's decompositions may be: one decomposition; two that get
\* the same code; two of which the second has a component without a code.
DivMenu == { << <<1>> >>,
             << <<1, 2, 1>>, <<1, 2, 3, 1>> >>,
             << <<2>>, <<2, 4>> >> }

Tables == UNION {[1..n -> DivMenu] : n \in 0..NChars}

\* Characters 1 and 2 with the same frequency, 3 and 4 with the next, and so on;
\* or character 1 without a frequency and every other character with its own.
FreqSets == { [c \in 1..NChars |-> (c + 1) \div 2], [c \in 2..NChars |-> c] }

\* Words over the characters, with their weights "3", "2", "1".
MainWordEntries == << [Word |-> <<1, 2>>, Weight |-> <<51>>],
                      [Word |-> <<2, 1, 1>>, Weight |-> <<50>>],
                      [Word |-> <<1, 1, 2, 1>>, Weight |-> <<49>>] >>

Init ==
    /\ build \in {"builder", "part_000"}
    /\ mappings = MainMappings
    /\ table \in Tables
    /\ freqSet \in FreqSets
    /\ numCPU \in 1..MaxCPU
    /\ chars \in Orders(DOMAIN table)
    /\ wordEntries = MainWordEntries
    /\ lenCodeLimit = MainLenCodeLimit
    /\ noSimplifyChars = MainNoSimplifyChars
    /\ wordsLenCodeLimit = MainWordsLenCodeLimit
    /\ pc = "loop"
    /\ charMetaList = <<>>
    /\ NoCalc /\ NoWorkers /\ NoOuter /\ NoCiti /\ NoMain

Next ==
    \/ SpawnBatch
    \/ LoopDone
    \/ \E w \in Workers : WorkerBuild(w)
    \/ \E w \in Workers : WorkerLock(w)
    \/ \E w \in Workers : WorkerAppend(w)
    \/ \E w \in Workers : WorkerUnlock(w)
    \/ WaitSortReturn
    \/ MainCreateCharCodeMap
    \/ MainBuildWordsFullCode
    \/ MainBuildWordsSimpleCode
    \/ MainBuildSimpleCodeList

Spec == Init /\ [][Next]_vars

----------------------------------------------------------------------------
(* SpecTwoRuns: main's pipeline run twice on the same inputs, on the same  *)
(* machine.                                                                *)

\* The tables a run hands to the writers.
OutputTables ==
    [full |-> charMetaList, simple |-> simpleCodeList, wordsFull |-> wordCodes,
     wordsSimple |-> wordSimpleCodes]

\* The program is started again: the first run's tables are kept for
\* comparison, every variable of the run is as at the start, and the
\* iteration over the table takes whatever order the new run gives it.
MainRunAgain ==
    /\ pc = "write"
    /\ firstRun = <<>>
    /\ firstRun' = <<OutputTables>>
    /\ pc' = "loop"
    /\ chars' \in Orders(DOMAIN table)
    /\ charMetaList' = <<>>
    /\ i' = 0
    /\ wg' = 0
    /\ mutex' = <<>>
    /\ wpc' = [w \in Workers |-> "none"]
    /\ batch' = [w \in Workers |-> [start |-> 0, end |-> 0]]
    /\ localCharMetaList' = [w \in Workers |-> <<>>]
    /\ charCodeMap' = <<>>
    /\ wordCodes' = <<>>
    /\ simpleCodeList' = <<>>
    /\ simpleFrom' = <<>>
    /\ usedCodes' = {}
    /\ wordSimpleCodes' = <<>>
    /\ UNCHANGED <<build, mappings, table, freqSet, numCPU, wordEntries, lenCodeLimit,
                   noSimplifyChars, wordsLenCodeLimit, calcVars, citiVars, parseVars,
                   writeVars>>

NextTwoRuns == Next \/ MainRunAgain

SpecTwoRuns == Init /\ [][NextTwoRuns]_vars

----------------------------------------------------------------------------
(* Properties *)

\* BuildFullCodeMetaList has returned (main holds its result in charMetaList).
Returned ==
    pc \in {"CreateCharCodeMap", "BuildWordsFullCode", "BuildWordsSimpleCode",
            "BuildSimpleCodeList", "write", "panic"}

Metas == {charMetaList[k] : k \in 1..Len(charMetaList)}

\* The decomposition a CharMeta points back to.
DivisionOf(cm) == table[cm.Division[1]][cm.Division[2]]

\* A component that one of the code's positions is taken from has no code.
LacksCode(d) ==
    \/ MapGet(mappings, d[1]) = <<>>
    \/ Len(d) >= 2 /\ MapGet(mappings, d[2]) = <<>>
    \/ Len(d) >= 3 /\ MapGet(mappings, d[Len(d)]) = <<>>

\* C1: a decomposition that lacks a needed component code leaves no CharMeta in
\* BuildFullCodeMetaList's result, and main's run on that result does not panic.
C1_MissingCodeDropped ==
    /\ Returned => \A cm \in Metas : ~LacksCode(DivisionOf(cm))
    /\ pc # "panic"

RECURSIVE SumLen(_, _)
SumLen(t, S) ==
    IF S = {} THEN 0
    ELSE LET c == CHOOSE x \in S : TRUE IN Len(t[c]) + SumLen(t, S \ {c})

\* C2: once the batch loop has ended every character lies in exactly one batch,
\* and the returned list holds exactly one CharMeta per (character,
\* decomposition) pair, with freqSet[character] (0 when absent) and MDiv true
\* exactly for the first decomposition.
C2_OnePerPair ==
    /\ pc # "loop" =>
          \A n \in 0..(Len(chars) - 1) :
              Cardinality({w \in Workers : /\ wpc[w] # "none"
                                            /\ batch[w].start <= n
                                            /\ n < batch[w].end}) = 1
    /\ Returned =>
          /\ Len(charMetaList) = SumLen(table, DOMAIN table)
          /\ \A c \in DOMAIN table : \A k \in 1..Len(table[c]) :
                /\ Cardinality({n \in 1..Len(charMetaList) :
                                   charMetaList[n].Division = <<c, k>>}) = 1
                /\ \A n \in 1..Len(charMetaList) :
                      charMetaList[n].Division = <<c, k>> =>
                          /\ charMetaList[n].Char = c
                          /\ charMetaList[n].Freq = (IF c \in DOMAIN freqSet
                                                      THEN freqSet[c] ELSE 0)
                          /\ charMetaList[n].MDiv = (k = 1)

C2_Witness ==
    /\ pc = "CreateCharCodeMap"
    /\ numCPU = 2
    /\ \A w \in {0, 1} : wpc[w] = "done"
    /\ \E c \in DOMAIN table : Len(table[c]) = 2
    /\ \E c \in DOMAIN table : c \notin DOMAIN freqSet
    /\ Len(charMetaList) >= 3

\* The CharMetas of the whole table, characters in ascending order.
RECURSIVE AllMetas(_)
AllMetas(c) == IF c \notin DOMAIN table THEN <<>> ELSE CharMetasOf(c) \o AllMetas(c + 1)

\* C3: whatever the order of the batches and of the characters, the returned
\* sequence is one and the same: the one sequence the inputs determine.
C3_SameForEveryOrder ==
    Returned =>
        charMetaList = CHOOSE r \in SortSlice(FinalSortKind, AllMetas(1)) : TRUE

Sorted(list, InOrder(_, _)) ==
    \A k \in 1..(Len(list) - 1) : InOrder(list[k], list[k + 1])

\* a is not after b by (code ascending, frequency descending, character ascending)
ByCodeFreqChar(a, b) ==
    \/ StrLess(a.Code, b.Code)
    \/ a.Code = b.Code /\ a.Freq > b.Freq
    \/ a.Code = b.Code /\ a.Freq = b.Freq /\ a.Char <= b.Char

\* a is not after b by (frequency descending, code ascending, character ascending)
ByFreqCodeChar(a, b) ==
    \/ a.Freq > b.Freq
    \/ a.Freq = b.Freq /\ StrLess(a.Code, b.Code)
    \/ a.Freq = b.Freq /\ a.Code = b.Code /\ a.Char <= b.Char

\* C4 as stated: the returned list is sorted by code ascending, then frequency
\* descending, then character ascending.
C4_SortedByCode == Returned => Sorted(charMetaList, ByCodeFreqChar)

\* C4 as amended: the list returned by builder.go's BuildFullCodeMetaList is
\* sorted by (code ascending, frequency descending, character ascending); the
\* list returned by the copy that ends with sortCharMetaByFreq is sorted by
\* (frequency descending, code ascending, character ascending).
C4_SortedPerCopy ==
    Returned =>
        IF build = "builder" THEN Sorted(charMetaList, ByCodeFreqChar)
        ELSE Sorted(charMetaList, ByFreqCodeChar)

\* builder.go returns a list in which the code order and the frequency order
\* disagree, and ties on code and on (code, frequency) are decided.
C4_Witness ==
    /\ pc = "CreateCharCodeMap"
    /\ build = "builder"
    /\ \E j, k \in 1..Len(charMetaList) :
          /\ j < k
          /\ charMetaList[j].Code # charMetaList[k].Code
          /\ charMetaList[j].Freq < charMetaList[k].Freq
    /\ \E j, k \in 1..Len(charMetaList) :
          /\ j < k
          /\ charMetaList[j].Code = charMetaList[k].Code
          /\ charMetaList[j].Char # charMetaList[k].Char

\* The symbol the claims call c[k] (1-based here), as a one-symbol string.
Sym(c, k) == <<c[k]>>

\* "c[2] if len(c) >= 3, else c[1] if len(c) = 2, else c[0]"
LastOf(c) == IF Len(c) >= 3 THEN Sym(c, 3) ELSE IF Len(c) = 2 THEN Sym(c, 2) ELSE Sym(c, 1)

\* "c[1] if len(c) >= 2 else c[0]"
SecondOf(c) == IF Len(c) >= 2 THEN Sym(c, 2) ELSE Sym(c, 1)

HasUpper(s) == \E k \in 1..Len(s) : s[k] >= 65 /\ s[k] <= 90

\* C5: a single component with the non-empty code c gets the code
\* c[0] + x + x + y, lower-cased, x the second symbol (else the first) and y the
\* third (else the second, else the first).
C5_SingleRoot ==
    (pc = "calcDone" /\ Len(div) = 1 /\ MapGet(mappings, div[1]) # <<>>) =>
        LET c == MapGet(mappings, div[1])
        IN  calcOut.code = ToLower(Sym(c, 1) \o SecondOf(c) \o SecondOf(c) \o LastOf(c))

\* A three-symbol code with an upper-case letter whose second and third symbols differ.
C5_Witness ==
    /\ pc = "calcDone"
    /\ Len(div) = 1
    /\ LET c == MapGet(mappings, div[1])
       IN  Len(c) = 3 /\ HasUpper(c) /\ c[2] # c[3] /\ Len(calcOut.code) = 4

\* C6: two components with the non-empty codes f and s get
\* f[0] + s[0] + (f[1] or f[0]) + (s[2] or s[1] or s[0]), lower-cased.
C6_DoubleRoot ==
    (/\ pc = "calcDone"
     /\ Len(div) = 2
     /\ MapGet(mappings, div[1]) # <<>>
     /\ MapGet(mappings, div[2]) # <<>>) =>
        LET f == MapGet(mappings, div[1])
            s == MapGet(mappings, div[2])
        IN  calcOut.code = ToLower(Sym(f, 1) \o Sym(s, 1) \o SecondOf(f) \o LastOf(s))

\* f = "aB" and s = "Ba" give "abba".
C6_Witness ==
    /\ pc = "calcDone"
    /\ Len(div) = 2
    /\ MapGet(mappings, div[1]) = <<97, 66>>
    /\ MapGet(mappings, div[2]) = <<66, 97>>
    /\ calcOut.code = <<97, 98, 98, 97>>

\* C7: three or more components whose first, second and last codes f, s, l are
\* non-empty get f[0] + s[0] + l[0] + (l[2] or l[1] or l[0]), lower-cased: the
\* code of the decomposition with the components in between left out.
C7_MultiRoot ==
    (/\ pc = "calcDone"
     /\ Len(div) >= 3
     /\ MapGet(mappings, div[1]) # <<>>
     /\ MapGet(mappings, div[2]) # <<>>
     /\ MapGet(mappings, div[Len(div)]) # <<>>) =>
        LET f == MapGet(mappings, div[1])
            s == MapGet(mappings, div[2])
            l == MapGet(mappings, div[Len(div)])
        IN  /\ calcOut.code = ToLower(Sym(f, 1) \o Sym(s, 1) \o Sym(l, 1) \o LastOf(l))
            /\ calcOut.code =
                   calcFullCodeByDiv(<<div[1], div[2], div[Len(div)]>>, mappings).code

\* Four components, the third another symbol than the last, with another first symbol.
C7_Witness ==
    /\ pc = "calcDone"
    /\ Len(div) = 4
    /\ div[3] # div[4]
    /\ MapGet(mappings, div[3]) # <<>>
    /\ MapGet(mappings, div[4]) # <<>>
    /\ ToLowerByte(MapGet(mappings, div[3])[1]) # ToLowerByte(MapGet(mappings, div[4])[1])
    /\ Len(calcOut.code) = 4

\* C8: every full code a CharMeta carries, in a worker's buffer or in the list,
\* has at most 4 symbols and no upper-case letter.
C8_ShortLowerCase ==
    \A cm \in Metas \cup UNION {SeqToSet(localCharMetaList[w]) : w \in Workers} :
        Len(cm.Code) <= 4 /\ ~HasUpper(cm.Code)

\* The returned list holds a code made from the component code "Bab".
C8_Witness ==
    /\ Returned
    /\ \E cm \in Metas :
          /\ cm.Code = <<98, 97, 97, 98>>
          /\ MapGet(mappings, DivisionOf(cm)[1]) = <<66, 97, 98>>

Prefixes(code) == {SubSeq(code, 1, n) : n \in 1..Len(code)}

\* C9: in the result, for every prefix length n with quota Q > 0 and every
\* prefix p of n symbols, at most Q entries have the target length of n and
\* start with p.
C9_QuotaPerPrefix ==
    pc = "write" =>
        \A n \in 1..4 :
            Limit(lenCodeLimit, n) > 0 =>
                \A p \in {q \in UNION {Prefixes(e.Code) : e \in SeqToSet(simpleCodeList)} :
                              Len(q) = n} :
                    Cardinality({k \in 1..Len(simpleCodeList) :
                                    /\ Len(simpleCodeList[k].Code) = TargetLength(n)
                                    /\ HasPrefix(simpleCodeList[k].Code, p)})
                        <= Limit(lenCodeLimit, n)

\* C10: every returned entry has another code than the full code of the
\* CharMeta it was made from.
C10_NotTheFullCode ==
    /\ Len(simpleFrom) = Len(simpleCodeList)
    /\ \A k \in 1..Len(simpleCodeList) :
          /\ simpleCodeList[k].Char = simpleFrom[k].Char
          /\ simpleCodeList[k].Code # simpleFrom[k].Code

\* A run in which one entry's candidate was its own full code (taken at prefix
\* length 4) while another entry got a simple code.
C10_Witness ==
    /\ pc = "write"
    /\ Len(simpleCodeList) >= 1
    /\ \E k \in 1..Len(charMetaList) :
          /\ charMetaList[k].Code \in usedCodes
          /\ \A j \in 1..Len(simpleFrom) : simpleFrom[j] # charMetaList[k]

\* The input list without the entries of the excluded characters.
WithoutExcluded == SelectSeq(charMetaList, LAMBDA cm : cm.Char \notin SeqToSet(noSimplifyChars))

\* C11: no entry of BuildSimpleCodeList's result has an excluded character, and
\* the result is what the call returns for the input without the excluded
\* characters and an empty exclusion list: the two calls have the same possible
\* results, so an excluded character uses no quota and reserves no code.
C11_ExcludedLeaveNoTrace ==
    pc = "write" =>
        /\ \A k \in 1..Len(simpleCodeList) :
               simpleCodeList[k].Char \notin SeqToSet(noSimplifyChars)
        /\ simpleCodeList \in SimpleResults(WithoutExcluded, lenCodeLimit, <<>>)
        /\ SimpleResults(charMetaList, lenCodeLimit, noSimplifyChars)
               = SimpleResults(WithoutExcluded, lenCodeLimit, <<>>)

\* An excluded character comes before (higher frequency) an entry with the same
\* full code, and that entry got the code the first in line gets.
C11_Witness ==
    /\ pc = "write"
    /\ \E j \in 1..Len(charMetaList), k \in 1..Len(simpleCodeList) :
          /\ charMetaList[j].Char \in SeqToSet(noSimplifyChars)
          /\ simpleFrom[k].Code = charMetaList[j].Code
          /\ simpleFrom[k].Freq < charMetaList[j].Freq
          /\ simpleCodeList[k].Code
                = Simplify(simpleFrom[k].Code, 1, <<>>, {}, lenCodeLimit)

\* BuildWordsFullCode has returned.
WordsCoded == pc \in {"BuildWordsSimpleCode", "BuildSimpleCodeList", "write", "panic"}

\* Symbol k of the code of character j of word w ("" when the character has none).
CharCode(w, j) == MapGet(charCodeMap, w[j])

\* The code the stated rules give a word, when the codes are long enough for them.
RuleCode(w) ==
    IF Len(w) = 2
    THEN <<CharCode(w, 1)[1], CharCode(w, 1)[2], CharCode(w, 2)[1], CharCode(w, 2)[2]>>
    ELSE IF Len(w) = 3
    THEN <<CharCode(w, 1)[1], CharCode(w, 2)[1], CharCode(w, 3)[1], CharCode(w, 3)[2]>>
    ELSE <<CharCode(w, 1)[1], CharCode(w, 2)[1], CharCode(w, 3)[1], CharCode(w, Len(w))[1]>>

\* The characters a word's rule reads have codes of the lengths the rule needs.
RuleApplies(w) ==
    \/ Len(w) = 2 /\ Len(CharCode(w, 1)) >= 2 /\ Len(CharCode(w, 2)) >= 2
    \/ Len(w) = 3 /\ Len(CharCode(w, 1)) >= 1 /\ Len(CharCode(w, 2)) >= 1
                  /\ Len(CharCode(w, 3)) >= 2
    \/ Len(w) >= 4 /\ \A j \in {1, 2, 3, Len(w)} : Len(CharCode(w, j)) >= 1

\* C12: the code BuildWordsFullCode gives a word is first2 + first2 for two
\* characters, symbol1 + symbol1 + first2 for three, and symbol 1 of characters
\* 1, 2, 3 and the last for four or more; every word whose characters have
\* codes of the needed lengths gets that code.
C12_WordCodeRules ==
    WordsCoded =>
        /\ \A k \in 1..Len(wordCodes) :
               /\ RuleApplies(wordCodes[k].Word)
               /\ wordCodes[k].Code = RuleCode(wordCodes[k].Word)
        /\ \A k \in 1..Len(wordEntries) :
               RuleApplies(wordEntries[k].Word) =>
                   \E j \in 1..Len(wordCodes) : wordCodes[j].Word = wordEntries[k].Word

\* The claim's example ("qaaa", "wbbc" gives "qawb") and a word of five
\* characters whose fourth and last characters have different codes.
C12_Witness ==
    /\ WordsCoded
    /\ \E k \in 1..Len(wordCodes) :
          wordCodes[k].Word = <<1, 2>> /\ wordCodes[k].Code = <<113, 97, 119, 98>>
    /\ \E k \in 1..Len(wordCodes) :
          /\ Len(wordCodes[k].Word) = 5
          /\ CharCode(wordCodes[k].Word, 4) # CharCode(wordCodes[k].Word, 5)

\* The (word, weight) pairs of a list, in order.
WordsAndWeights(l) == [k \in 1..Len(l) |-> <<l[k].Word, l[k].Weight>>]

\* Every character of the word has a non-empty code in the character-code map.
AllCharsCoded(w) == \A j \in 1..Len(w) : CharCode(w, j) # <<>>

\* C13 as stated: the output is the input without the words that have a
\* character with no code, in input order, weights unchanged.
C13_DropsUncodedWords ==
    WordsCoded =>
        WordsAndWeights(wordCodes)
            = WordsAndWeights(SelectSeq(wordEntries, LAMBDA e : AllCharsCoded(e.Word)))

\* C13 (amended): the output is the input without the words whose rule reads a
\* character whose code is missing or too short (both characters of a
\* two-character word, all of a three-character one, characters 1, 2, 3 and
\* the last of a longer one) and without the one-character words, in input
\* order, weights unchanged.
C13_DropsWordsWithoutRuleCode ==
    WordsCoded =>
        WordsAndWeights(wordCodes)
            = WordsAndWeights(SelectSeq(wordEntries, LAMBDA e : RuleApplies(e.Word)))

\* A word of five characters is kept although its fourth character has no
\* code, next to a dropped word, with another kept word after it.
C13_Witness ==
    /\ WordsCoded
    /\ Len(wordCodes) < Len(wordEntries)
    /\ \E k \in 1..Len(wordCodes) :
          /\ Len(wordCodes[k].Word) = 5
          /\ CharCode(wordCodes[k].Word, 4) = <<>>

\* CreateCharCodeMap has returned in main's pipeline.
CharsMapped ==
    pc \in {"BuildWordsFullCode", "BuildWordsSimpleCode", "BuildSimpleCodeList", "write",
            "panic"}

\* The code of a character's primary (first-registered) decomposition.
PrimaryCode(c) == calcFullCodeByDiv(table[c][1], mappings).code

\* C14: CreateCharCodeMap maps every character of the table to the code of its
\* primary decomposition, whatever the order of the CharMeta list and the codes
\* of its other variants, and the word codes are those this map gives.
C14_PrimaryVariantOnly ==
    /\ CharsMapped => charCodeMap = [c \in DOMAIN table |-> PrimaryCode(c)]
    /\ WordsCoded =>
          wordCodes = BuildWordsFullCode(wordEntries, [c \in DOMAIN table |-> PrimaryCode(c)])

\* A character has a variant whose code differs from its primary code, and a
\* word with that character got its code.
C14_Witness ==
    /\ WordsCoded
    /\ \E k \in 1..Len(charMetaList) :
          /\ ~charMetaList[k].MDiv
          /\ charMetaList[k].Code # PrimaryCode(charMetaList[k].Char)
          /\ \E j \in 1..Len(wordCodes) :
                charMetaList[k].Char \in SeqToSet(wordCodes[j].Word)

\* BuildWordsSimpleCode has returned.
WordsSimplified == pc \in {"BuildSimpleCodeList", "write", "panic"}

\* A word that generatePlaceholders makes: a circled number or "(n)".
PlaceholderWord(w) ==
    \/ Len(w) = 1 /\ w[1] >= Circled1 /\ w[1] <= Circled10
    \/ Len(w) >= 3 /\ w[1] = 40 /\ w[Len(w)] = 41

\* The positions of the output that hold the code, real entries or all.
RealAt(code) ==
    {k \in 1..Len(wordSimpleCodes) :
        wordSimpleCodes[k].Code = code /\ ~PlaceholderWord(wordSimpleCodes[k].Word)}

EntriesAt(code) == {k \in 1..Len(wordSimpleCodes) : wordSimpleCodes[k].Code = code}

OutputCodes == {wordSimpleCodes[k].Code : k \in 1..Len(wordSimpleCodes)}

\* C15: in BuildWordsSimpleCode's output no code of length L in 1..3 has more
\* real entries than quota[L], and every input WordCode yields at most one
\* abbreviation: no (word, weight) has more real entries than input entries.
C15_WordQuota ==
    WordsSimplified =>
        /\ \A code \in OutputCodes :
               Len(code) \in 1..3 =>
                   Cardinality(RealAt(code)) <= Limit(wordsLenCodeLimit, Len(code))
        /\ \A k \in 1..Len(wordSimpleCodes) :
               ~PlaceholderWord(wordSimpleCodes[k].Word) =>
                   Cardinality({j \in 1..Len(wordSimpleCodes) :
                                   /\ wordSimpleCodes[j].Word = wordSimpleCodes[k].Word
                                   /\ wordSimpleCodes[j].Weight = wordSimpleCodes[k].Weight})
                     <= Cardinality({j \in 1..Len(wordCodes) :
                                       /\ wordCodes[j].Word = wordSimpleCodes[k].Word
                                       /\ wordCodes[j].Weight = wordSimpleCodes[k].Weight})

\* Two word codes have the same first symbol under a quota of one: one of them
\* has the one-symbol code and the other does not.
C15_Witness ==
    /\ WordsSimplified
    /\ Limit(wordsLenCodeLimit, 1) = 1
    /\ Len(wordCodes) = 2
    /\ wordCodes[1].Code[1] = wordCodes[2].Code[1]
    /\ Cardinality(RealAt(<<wordCodes[1].Code[1]>>)) = 1

\* C16: in the copy of BuildWordsSimpleCode that back-fills placeholders, every
\* code of length L <= 3 with quota[L] = Q > 0 that holds a real entry has
\* exactly Q entries in the output, real ones and placeholders together.
C16_OccupiedBucketsFull ==
    (WordsSimplified /\ build = "part_000") =>
        \A code \in OutputCodes :
            (/\ Len(code) <= 3
             /\ Limit(wordsLenCodeLimit, Len(code)) > 0
             /\ RealAt(code) # {})
                => Cardinality(EntriesAt(code)) = Limit(wordsLenCodeLimit, Len(code))

\* A code holds a real entry and a placeholder.
C16_Witness ==
    /\ WordsSimplified
    /\ build = "part_000"
    /\ \E code \in OutputCodes : RealAt(code) # {} /\ EntriesAt(code) # RealAt(code)

\* The codes of 1..3 symbols over the keys.
KeyCodes == {c \in StringsUpTo(SeqToSet(keys), 3) : Len(c) >= 1}

RECURSIVE Power(_, _)
Power(b, e) == IF e = 0 THEN 1 ELSE b * Power(b, e - 1)

\* C17: in the copy that back-fills placeholders, for every length L in 1..3
\* with quota[L] = Q > 0 every code of length L over the keys that has no real
\* entry has exactly Q placeholder entries; no code has the same placeholder
\* twice (as it would from both fills); and the number of entries whose code is
\* over the keys is the sum of Q times the number of codes of length L, whatever
\* the word list.
C17_CodeSpaceComplete ==
    (WordsSimplified /\ build = "part_000") =>
        /\ \A code \in KeyCodes :
               (Limit(wordsLenCodeLimit, Len(code)) > 0 /\ RealAt(code) = {})
                   => Cardinality(EntriesAt(code)) = Limit(wordsLenCodeLimit, Len(code))
        /\ \A code \in OutputCodes : \A j, k \in EntriesAt(code) :
               (j # k /\ PlaceholderWord(wordSimpleCodes[j].Word))
                   => wordSimpleCodes[j].Word # wordSimpleCodes[k].Word
        /\ Cardinality(UNION {EntriesAt(code) : code \in KeyCodes})
               = Limit(wordsLenCodeLimit, 1) * Power(NKeys, 1)
                 + Limit(wordsLenCodeLimit, 2) * Power(NKeys, 2)
                 + Limit(wordsLenCodeLimit, 3) * Power(NKeys, 3)

\* One code over the keys holds a real entry and placeholders, another holds
\* placeholders only.
C17_Witness ==
    /\ WordsSimplified
    /\ build = "part_000"
    /\ \E code \in KeyCodes : RealAt(code) # {} /\ EntriesAt(code) # RealAt(code)
    /\ \E code \in KeyCodes : RealAt(code) = {} /\ EntriesAt(code) # {}

\* The positions of the input entries that share the code of entry k, those of
\* them with a higher frequency, and those with the same or a higher one.
CitiGroupOf(k) == {j \in 1..Len(citiEntries) : citiEntries[j].Code = citiEntries[k].Code}

HigherThan(k) == {j \in CitiGroupOf(k) : citiEntries[j].Freq > citiEntries[k].Freq}

NotLowerThan(k) == {j \in CitiGroupOf(k) : citiEntries[j].Freq >= citiEntries[k].Freq}

\* The code the claim gives rank r of a group: the code and the r-th suffix
\* symbol, or the code, floor((r-10)/10)+1 page markers "=" and symbol
\* (r-10) mod 10; rank 0 of a four-symbol code stays bare where bare holds.
RankCode(code, r, bare) ==
    IF r = 0 /\ Len(code) = 4 /\ bare THEN code
    ELSE IF r < 10 THEN code \o <<candidateSuffixes[r + 1]>>
    ELSE code \o [n \in 1..(((r - 10) \div 10) + 1) |-> 61]
              \o <<candidateSuffixes[((r - 10) % 10) + 1]>>

\* Entry k is untouched when alone with its code; else it has the text,
\* frequency and source it had and the code of a rank that its frequency allows
\* (the rank, when the frequencies differ), which no other entry of its group has.
RankedAt(k, bare) ==
    IF CitiGroupOf(k) = {k} THEN citiResult[k] = citiEntries[k]
    ELSE /\ \E r \in Cardinality(HigherThan(k))..(Cardinality(NotLowerThan(k)) - 1) :
               citiResult[k] = [citiEntries[k] EXCEPT
                                   !.Code = RankCode(citiEntries[k].Code, r, bare)]
         /\ \A j \in CitiGroupOf(k) \ {k} : citiResult[j].Code # citiResult[k].Code

\* C18 as stated: AddCandidateCodes leaves a lone entry untouched and gives rank
\* r of a group the code and suffix r (pages of "=" from rank 10 on), rank 0 of
\* a four-symbol code keeping the bare code; the code of a text depends on its
\* frequency rank only.
C18_SuffixByRank ==
    pc = "AddCandidateCodesDone" =>
        /\ Len(citiResult) = Len(citiEntries)
        /\ \A k \in 1..Len(citiEntries) : RankedAt(k, TRUE)

\* C18 (amended): as C18_SuffixByRank, but rank 0 of a four-symbol code keeps
\* the bare code only in the first copy of AddCandidateCodes; in the second
\* copy it gets the first suffix symbol like any other code.
C18_SuffixByRankPerCopy ==
    pc = "AddCandidateCodesDone" =>
        /\ Len(citiResult) = Len(citiEntries)
        /\ \A k \in 1..Len(citiEntries) : RankedAt(k, citiCopy = "first")

\* A group of a four-symbol code with frequencies out of order reaches the
\* second page: an entry has the code, "==" and a suffix symbol, and the most
\* frequent entry has the bare code.
C18_Witness ==
    /\ pc = "AddCandidateCodesDone"
    /\ \E j, k \in 1..Len(citiEntries) : j < k /\ citiEntries[j].Freq < citiEntries[k].Freq
    /\ \E k \in 1..Len(citiResult) :
          /\ Len(citiResult[k].Code) = Len(citiEntries[k].Code) + 3
          /\ citiResult[k].Code[Len(citiEntries[k].Code) + 2] = 61
    /\ \E k \in 1..Len(citiResult) :
          /\ HigherThan(k) = {}
          /\ Len(citiEntries[k].Code) = 4
          /\ citiResult[k].Code = citiEntries[k].Code

\* A candidate-code transform has returned.
CitiDone == pc \in {"AddCandidateCodesDone", "AddCandidateCodesWithSimpleSortingDone"}

\* C19: both transforms return a list of the input's length whose entry at
\* each position has the text, frequency and source of the input entry at
\* that position.
C19_PositionsPreserved ==
    CitiDone =>
        /\ Len(citiResult) = Len(citiEntries)
        /\ \A k \in 1..Len(citiEntries) :
               /\ citiResult[k].Text = citiEntries[k].Text
               /\ citiResult[k].Freq = citiEntries[k].Freq
               /\ citiResult[k].Source = citiEntries[k].Source

----------------------------------------------------------------------------
(* The quota-table strings *)

\* An integer as written: an optional sign and one or more digits, spaces
\* around it allowed.
IsInteger(s) ==
    LET t == TrimSpace(s)
        digits == IF t # <<>> /\ t[1] \in {43, 45} THEN Tail(t) ELSE t
    IN  /\ digits # <<>>
        /\ \A k \in 1..Len(digits) : digits[k] \in 48..57

\* A comma-separated list of integer:integer pairs; the empty string is the
\* empty list.
IsPairList(s) ==
    \/ s = <<>>
    \/ LET pairs == Split(s, 44)
       IN  \A k \in 1..Len(pairs) :
               LET parts == Split(pairs[k], 58)
               IN  Len(parts) = 2 /\ IsInteger(parts[1]) /\ IsInteger(parts[2])

\* main got past the parsing of the three quota tables.
PastParsing == pc \in {"ReadDivisionTable", "loop"}

\* C21: ParseLenCodeLimit returns an error for every string that is not a
\* comma-separated list of integer:integer pairs, and main aborts on that
\* error before any table is loaded: main gets past the parsing only when
\* every one of its quota strings is such a list, and stands at the abort (or
\* has not yet parsed) otherwise, with no table loaded.
C21_MalformedIsFatal ==
    /\ PastParsing =>
           /\ IsPairList(args.LenCodeLimit)
           /\ IsPairList(args.WordsLenCodeLimit)
           /\ IsPairList(args.LinglongLenCodeLimit)
    /\ pc = "fatal" => table = <<>> /\ chars = <<>> /\ charMetaList = <<>>

----------------------------------------------------------------------------
(* Two runs *)

\* C22: two runs of the pipeline on the same inputs and configuration hand
\* the same tables to the writers, entry for entry and in the same order,
\* whatever the order of the iteration over the table and the scheduling of
\* the workers.
C22_SameTablesTwice ==
    pc = "write" /\ firstRun # <<>> => OutputTables = firstRun[1]

----------------------------------------------------------------------------
(* The single-character simplifier, as a rule *)

\* The orders in which a list may be processed: every arrangement of its
\* entries with frequencies descending.
DescendingOrders(list) ==
    {q \in [1..Len(list) -> SeqToSet(list)] :
        /\ \A e \in SeqToSet(list) : \E k \in 1..Len(list) : q[k] = e
        /\ \A k \in 1..(Len(list) - 1) : q[k].Freq >= q[k + 1].Freq}

\* The candidate of a prefix length: prefix plus last symbol for lengths 1 and
\* 2, the bare prefix from length 3 on.
RuleCandidate(code, n) ==
    IF n <= 2 THEN SubSeq(code, 1, n) \o <<code[Len(code)]>> ELSE SubSeq(code, 1, n)

\* Prefix length n is open to an entry: its quota is positive, fewer than
\* quota-many kept codes have the target length and the prefix, and the
\* candidate is not taken.
RuleOpen(code, n, kept, taken, limits) ==
    /\ n \in DOMAIN limits
    /\ limits[n] > 0
    /\ Cardinality({c \in kept : /\ Len(c) = IF n <= 2 THEN n + 1 ELSE n
                                 /\ SubSeq(c, 1, n) = SubSeq(code, 1, n)}) < limits[n]
    /\ RuleCandidate(code, n) \notin taken

\* The candidate of the smallest open prefix length, "" when none is open.
RuleChoice(code, kept, taken, limits) ==
    LET open == {n \in 1..Len(code) : RuleOpen(code, n, kept, taken, limits)}
    IN  IF open = {} THEN <<>>
        ELSE RuleCandidate(code, CHOOSE n \in open : \A m \in open : n <= m)

\* The simplified entries (character, code, frequency) the rule gives the
\* entries of a list from the k-th on.  With discard, a choice equal to the
\* entry's full code yields no entry but stays taken.
RECURSIVE RuleEntries(_, _, _, _, _, _)
RuleEntries(list, k, kept, taken, limits, discard) ==
    IF k > Len(list) THEN {}
    ELSE LET e == list[k]
             c == IF e.Char \in SeqToSet(noSimplifyChars) THEN <<>>
                  ELSE RuleChoice(e.Code, kept, taken, limits)
             keep == c # <<>> /\ (discard => c # e.Code)
         IN  (IF keep THEN {<<e.Char, c, e.Freq>>} ELSE {})
                 \cup RuleEntries(list, k + 1,
                                  IF keep THEN kept \cup {c} ELSE kept,
                                  IF c # <<>> THEN taken \cup {c} ELSE taken,
                                  limits, discard)

SimpleEntriesOut == {<<simpleCodeList[k].Char, simpleCodeList[k].Code, simpleCodeList[k].Freq>> :
                        k \in 1..Len(simpleCodeList)}

\* C23 as stated: in some descending-frequency order of the list, every
\* entry gets the candidate of the smallest open prefix length as its
\* simplified entry, and no entry when no length is open; an absent length
\* has quota 0.
C23_SmallestOpenPrefix ==
    pc = "write" =>
        \E order \in DescendingOrders(charMetaList) :
            SimpleEntriesOut = RuleEntries(order, 1, {}, {}, lenCodeLimit, FALSE)

\* C23, amended: the same, but an entry whose candidate of the smallest open
\* prefix length is its own full code gets no simplified entry, and that
\* candidate still counts as taken for the entries after it.
C23_SmallestOpenPrefixDiscarded ==
    pc = "write" =>
        \E order \in DescendingOrders(charMetaList) :
            SimpleEntriesOut = RuleEntries(order, 1, {}, {}, lenCodeLimit, TRUE)

\* Three entries under a quota table without length 2: one simplified at
\* prefix length 1, one pushed to length 3, one left without an entry.
C23_Witness ==
    /\ pc = "write"
    /\ Len(charMetaList) = 3
    /\ 2 \notin DOMAIN lenCodeLimit
    /\ Len(simpleCodeList) = 2
    /\ \E k \in 1..2 : Len(simpleCodeList[k].Code) = 2
    /\ \E k \in 1..2 : Len(simpleCodeList[k].Code) = 3

\* The simplified codes the character c got.
SimpleCodesOf(c) ==
    {simpleCodeList[k].Code : k \in {j \in 1..Len(simpleCodeList) : simpleCodeList[j].Char = c}}

\* C24: of two non-excluded entries with the same full code and different
\* frequencies, when the less frequent one has a simplified code then the
\* more frequent one has one too, and one that is not longer.
C24_FrequentFirst ==
    pc = "write" =>
        \A a, b \in SeqToSet(charMetaList) :
            /\ a.Code = b.Code
            /\ a.Freq > b.Freq
            /\ {a.Char, b.Char} \cap SeqToSet(noSimplifyChars) = {}
            /\ SimpleCodesOf(b.Char) # {}
            => /\ SimpleCodesOf(a.Char) # {}
               /\ \A x \in SimpleCodesOf(a.Char), y \in SimpleCodesOf(b.Char) : Len(x) <= Len(y)

\* Two entries with one full code: the more frequent has a two-symbol code,
\* the less frequent a three-symbol code.
C24_Witness ==
    /\ pc = "write"
    /\ \E a, b \in SeqToSet(charMetaList) :
          /\ a.Code = b.Code
          /\ a.Freq > b.Freq
          /\ \E x \in SimpleCodesOf(a.Char), y \in SimpleCodesOf(b.Char) :
                Len(x) = 2 /\ Len(y) = 3

----------------------------------------------------------------------------
(* The word simplifier, as a rule *)

\* The code of length L a word code may hold, "" when the length does not
\* apply to it: the first symbol; symbols 1 and 3 for a word of two
\* characters; the first three symbols for a word of three characters.
WordRuleCode(wc, L) ==
    IF L = 1 /\ Len(wc.Code) >= 1 THEN <<wc.Code[1]>>
    ELSE IF L = 2 /\ Len(wc.Word) = 2 /\ Len(wc.Code) >= 3 THEN <<wc.Code[1], wc.Code[3]>>
    ELSE IF L = 3 /\ Len(wc.Word) = 3 /\ Len(wc.Code) >= 3 THEN SubSeq(wc.Code, 1, 3)
    ELSE <<>>

\* How many of the entries have the code.
CountCode(entries, code) == Cardinality({k \in 1..Len(entries) : entries[k].Code = code})

\* The real entries the rule gives the word codes of a list from the k-th
\* on, given those it gave before: each word code gets the code of the first
\* length that applies and is held by fewer entries than the quota.
RECURSIVE WordRuleEntries(_, _, _, _)
WordRuleEntries(list, k, given, limits) ==
    IF k > Len(list) THEN given
    ELSE LET wc == list[k]
             open == {L \in 1..3 : /\ WordRuleCode(wc, L) # <<>>
                                   /\ L \in DOMAIN limits
                                   /\ CountCode(given, WordRuleCode(wc, L)) < limits[L]}
         IN  IF open = {} THEN WordRuleEntries(list, k + 1, given, limits)
             ELSE WordRuleEntries(list, k + 1,
                      Append(given,
                             [Word |-> wc.Word, Weight |-> wc.Weight,
                              Code |-> WordRuleCode(wc, CHOOSE L \in open :
                                                            \A M \in open : L <= M)]),
                      limits)

\* The arrangements of a list with weights descending.
DescendingWeights(list) ==
    {q \in {[k \in 1..Len(list) |-> list[p[k]]] : p \in Orders(1..Len(list))} :
        \A k \in 1..(Len(list) - 1) : parseWeight(q[k].Weight) >= parseWeight(q[k + 1].Weight)}

\* The real entries of the output, in its order.
RealEntries ==
    LET real(e) == ~PlaceholderWord(e.Word)
    IN  SelectSeq(wordSimpleCodes, real)

\* Two lists hold the same entries the same number of times.
SameEntries(a, b) ==
    /\ Len(a) = Len(b)
    /\ \A x \in SeqToSet(a) \cup SeqToSet(b) :
           Cardinality({k \in 1..Len(a) : a[k] = x}) = Cardinality({k \in 1..Len(b) : b[k] = x})

\* C25: every real entry of BuildWordsSimpleCode's output comes from a word
\* code of the input and holds a code the length rules allow it, and the
\* real entries are those that processing the word codes by descending
\* weight gives: each word code the code of the first length in 1, 2, 3 that
\* applies to it and whose counter is below the quota.
C25_WordLengthRules ==
    WordsSimplified =>
        /\ \A k \in 1..Len(wordSimpleCodes) :
               ~PlaceholderWord(wordSimpleCodes[k].Word) =>
                   \E j \in 1..Len(wordCodes) :
                       /\ wordCodes[j].Word = wordSimpleCodes[k].Word
                       /\ wordCodes[j].Weight = wordSimpleCodes[k].Weight
                       /\ Len(wordSimpleCodes[k].Code) \in 1..3
                       /\ wordSimpleCodes[k].Code =
                              WordRuleCode(wordCodes[j], Len(wordSimpleCodes[k].Code))
        /\ \E order \in DescendingWeights(wordCodes) :
               SameEntries(RealEntries, WordRuleEntries(order, 1, <<>>, wordsLenCodeLimit))

\* Two words of two characters with the same first symbol under a quota of
\* one: the heavier holds the one-symbol code, the other symbols 1 and 3.
C25_Witness ==
    /\ WordsSimplified
    /\ Len(wordCodes) = 2
    /\ \A k \in 1..2 : Len(wordCodes[k].Word) = 2 /\ Len(wordCodes[k].Code) = 4
    /\ parseWeight(wordCodes[1].Weight) > parseWeight(wordCodes[2].Weight)
    /\ \E k, j \in 1..Len(wordSimpleCodes) :
          /\ wordSimpleCodes[k].Word = wordCodes[1].Word
          /\ wordSimpleCodes[k].Code = <<wordCodes[1].Code[1]>>
          /\ wordSimpleCodes[j].Weight = wordCodes[2].Weight
          /\ wordSimpleCodes[j].Code = <<wordCodes[2].Code[1], wordCodes[2].Code[3]>>
          /\ wordCodes[2].Code[3] # wordCodes[2].Code[2]

----------------------------------------------------------------------------
(* The order of the word simple codes *)

\* The index of a reserved marker: 1 for the circled 1, up to 10.
MarkerIndex(w) == w[1] - Circled1 + 1

\* Entry a may stand before entry b: code ascending; with one code, real
\* words before placeholders, real words by weight descending then word
\* ascending, placeholders by index ascending.
WordSimpleInOrder(a, b) ==
    IF a.Code # b.Code THEN StrLess(a.Code, b.Code)
    ELSE IF PlaceholderWord(a.Word) # PlaceholderWord(b.Word) THEN ~PlaceholderWord(a.Word)
    ELSE IF PlaceholderWord(a.Word) THEN MarkerIndex(a.Word) <= MarkerIndex(b.Word)
    ELSE IF parseWeight(a.Weight) # parseWeight(b.Weight)
         THEN parseWeight(a.Weight) > parseWeight(b.Weight)
    ELSE a.Word = b.Word \/ StrLess(a.Word, b.Word)

\* C26: SortWordSimpleCodes leaves the list ordered by code ascending and,
\* within a code, real words before placeholders, real words by weight
\* descending then word ascending, placeholders by index ascending, whatever
\* the weights of the real words.
C26_RealBeforePlaceholders ==
    pc = "SortWordSimpleCodesDone" =>
        \A k, j \in 1..Len(sortedWordSimpleCodes) :
            k < j => WordSimpleInOrder(sortedWordSimpleCodes[k], sortedWordSimpleCodes[j])

----------------------------------------------------------------------------
(* The placeholders *)

\* The positions of the output that hold a placeholder with the code.
PlaceholdersAt(code) == EntriesAt(code) \ RealAt(code)

\* The reserved marker of index k with its weight -k.
Marker(k) == [Word |-> <<Circled1 + k - 1>>, Weight |-> <<45>> \o Decimal(k)]

\* The token "(k)" with the weight "-0".
Bracketed(k) == [Word |-> <<40>> \o Decimal(k) \o <<41>>, Weight |-> <<45, 48>>]

\* The codes that have a bucket: those of the output and those over the keys.
Buckets == {code \in OutputCodes \cup KeyCodes :
               Len(code) <= 3 /\ Limit(wordsLenCodeLimit, Len(code)) > 0}

\* The placeholders of a bucket, as (word, weight).
PlaceholderSet(code) ==
    {[Word |-> wordSimpleCodes[k].Word, Weight |-> wordSimpleCodes[k].Weight] :
        k \in PlaceholdersAt(code)}

\* C27 as stated: every placeholder is one of the ten reserved markers and
\* the marker of index k has weight -k; a bucket with n real entries and
\* quota Q holds exactly the markers n+1..Q (1..Q when n = 0), whatever the
\* quota table.
C27_MarkersFillBuckets ==
    (WordsSimplified /\ build = "part_000") =>
        \A code \in Buckets :
            LET Q == Limit(wordsLenCodeLimit, Len(code))
                n == Cardinality(RealAt(code))
            IN  /\ PlaceholderSet(code) = {Marker(k) : k \in (n + 1)..Q}
                /\ Cardinality(PlaceholdersAt(code)) = Q - n
                /\ \A k \in PlaceholdersAt(code) :
                       MarkerIndex(wordSimpleCodes[k].Word) \in 1..10

\* C27, amended: the same for a quota of at most 10; for a quota Q above 10
\* the placeholders of a bucket with n real entries are the tokens "(n+1)"
\* .. "(Q)", every one with the weight "-0".
C27_MarkersUpToTen ==
    (WordsSimplified /\ build = "part_000") =>
        \A code \in Buckets :
            LET Q == Limit(wordsLenCodeLimit, Len(code))
                n == Cardinality(RealAt(code))
            IN  /\ PlaceholderSet(code) =
                       IF Q <= 10 THEN {Marker(k) : k \in (n + 1)..Q}
                       ELSE {Bracketed(k) : k \in (n + 1)..Q}
                /\ Cardinality(PlaceholdersAt(code)) = Q - n

\* Under main's default quota of four, a code with one real entry holds the
\* markers 2, 3, 4 and a code without a real entry the markers 1..4.
C27_Witness ==
    /\ WordsSimplified
    /\ build = "part_000"
    /\ wordsLenCodeLimit = MainWordsLenCodeLimit
    /\ \E code \in Buckets :
          /\ Cardinality(RealAt(code)) = 1
          /\ PlaceholderSet(code) = {Marker(2), Marker(3), Marker(4)}
    /\ \E code \in Buckets :
          /\ RealAt(code) = {}
          /\ PlaceholderSet(code) = {Marker(1), Marker(2), Marker(3), Marker(4)}

----------------------------------------------------------------------------
(* Ties in a code group *)

\* The rank whose code the entry at position k of the result holds.
RankOf(k) ==
    CHOOSE r \in 0..(Cardinality(CitiGroupOf(k)) - 1) :
        citiResult[k].Code \in {RankCode(citiEntries[k].Code, r, TRUE),
                                RankCode(citiEntries[k].Code, r, FALSE)}

\* C28: of two entries of one code group with the same frequency, the one
\* earlier in the input list gets the lower rank.
C28_TiesInSourceOrder ==
    pc = "AddCandidateCodesDone" =>
        \A j, k \in 1..Len(citiEntries) :
            (/\ j < k
             /\ citiEntries[j].Code = citiEntries[k].Code
             /\ citiEntries[j].Freq = citiEntries[k].Freq)
                => RankOf(j) < RankOf(k)

----------------------------------------------------------------------------
(* The simple codes are distinct *)

\* C29: no two entries of the list BuildSimpleCodeList returns have the same
\* code, also when entries of the input share a full code or a character.
C29_SimpleCodesUnique ==
    pc = "write" =>
        \A j, k \in 1..Len(simpleCodeList) :
            j # k => simpleCodeList[j].Code # simpleCodeList[k].Code

\* Two decompositions of one character with the same full code both got a
\* simple code.
C29_Witness ==
    /\ pc = "write"
    /\ \E j, k \in 1..Len(simpleCodeList) :
          /\ j # k
          /\ simpleCodeList[j].Char = simpleCodeList[k].Char
          /\ simpleFrom[j].Code = simpleFrom[k].Code
          /\ simpleFrom[j].Division # simpleFrom[k].Division

----------------------------------------------------------------------------
(* The output phase *)

\* The files whose goroutine main has started.
Started == {f \in Files : writers[f] \in {"run", "sent", "done"}}

\* The files whose writer has put its error into errChan.
Reported == {f \in Files : f \in writeFails /\ writers[f] \in {"sent", "done"}}

\* main has passed its last go statement.
AllStarted == pc \in {"go", "close", "range", "fatal", "done"} /\ \A f \in Files : writers[f] # "none"

\* main is out of the output phase: it went on, or log.Fatalln ended it.
OutputOver == pc \in {"done", "fatal"}

\* What holds in every state of the output phase: as many writers are
\* started as were counted, added to the WaitGroup and given room in errChan;
\* a writer about to report finds room; the channel is closed only when
\* every writer has finished.
OutputSafe ==
    /\ pc \in {"go", "close", "range", "fatal", "done"} =>
           /\ errCap = fileCount
           /\ outWg = fileCount - Cardinality({f \in Files : writers[f] = "done"})
           /\ Cardinality(Started) <= fileCount
    /\ AllStarted => Cardinality(Started) = fileCount
    /\ \A f \in Files : writers[f] \in {"run", "sent"} => ~closed
    /\ \A f \in writeFails : writers[f] = "run" => Len(errChan) < errCap
    /\ closed => \A f \in Files : writers[f] \in {"nil", "done"}
    /\ pc # "panic"

\* C30 as stated: the counts agree, no writer blocks when it reports, the
\* channel is closed after every writer has finished, wg.Wait() returns (main
\* leaves the output phase), and main has then seen every reported error.
C30_EveryErrorSeen ==
    /\ [](OutputSafe /\ (OutputOver => SeqToSet(seen) = Reported))
    /\ <>OutputOver

\* C30, amended: the same, but of the reported errors main sees the first one
\* in the channel only: log.Fatalln ends the process on it.  main goes on
\* exactly when no writer reported.
C30_FirstErrorSeen ==
    /\ [](/\ OutputSafe
          /\ pc = "done" => Reported = {} /\ seen = <<>> /\ errChan = <<>>
          /\ pc = "fatal" => /\ Len(seen) = 1
                             /\ seen[1] \in Reported
                             /\ SeqToSet(seen) \cup SeqToSet(errChan) = Reported)
    /\ <>OutputOver

\* All four optional tables are there and two files could not be written:
\* eight writers have finished, main has the first error and the other is
\* still in the channel.
C30_Witness ==
    /\ pc = "fatal"
    /\ present = Optional
    /\ fileCount = 8
    /\ \A f \in Files : writers[f] = "done"
    /\ Len(seen) = 1
    /\ Len(errChan) = 1

====
